---- MODULE Spec2Model ----
(***************************************************************************)
(* Fixed-point decimal arithmetic of NUMERIC (NumericValue, 128 bit,       *)
(* scale 10^9) and BIGNUMERIC (BigNumericValue, 256 bit, scale 10^38).     *)
(*                                                                         *)
(* TLC's integers are 32 bit wide, so every FixedUint<64, n> value is held *)
(* at its true width as a natural number written as a little-endian        *)
(* sequence of bytes without high zero bytes (<<>> is zero).  A signed       *)
(* value (FixedInt<64, n>, __int128) is a record [neg, mag].                *)
(***************************************************************************)
EXTENDS Integers, Sequences, FiniteSets, TLC

kBitsPerByte == 8
ByteBase == 2 ^ kBitsPerByte

(***************************************************************************)
(* Multi-precision naturals (FixedUint arithmetic).                        *)
(***************************************************************************)
Limb(u, i) == IF i >= 1 /\ i <= Len(u) THEN u[i] ELSE 0

Max2(x, y) == IF x >= y THEN x ELSE y
Min2(x, y) == IF x <= y THEN x ELSE y

\* e, with v evaluated before it.  TLC evaluates a LET definition where it is
\* first used; evaluating the earlier step of a chain first keeps the depth of
\* evaluation of a long chain bounded.
First(v, e) == IF v = v THEN e ELSE e

\* the element of a singleton set.  A value that is computed once and read
\* often (an argument, a local the code assigns once) is written as the
\* element x of the singleton {value}: The({ ... x ... : x \in {value}})
The(S) == CHOOSE x \in S : TRUE

\* the least and the greatest of a set of integers
MinOf(S) == CHOOSE i \in S : \A j \in S : i <= j
MaxOf(S) == CHOOSE i \in S : \A j \in S : j <= i

\* index of the highest nonzero byte of a[lo..hi], 0 if there is none
RECURSIVE HighNonZero(_, _, _)
HighNonZero(u, lo, hi) ==
    IF lo > hi THEN 0
    ELSE IF lo = hi THEN (IF u[lo] # 0 THEN lo ELSE 0)
    ELSE LET mid == (lo + hi) \div 2
             h   == HighNonZero(u, mid + 1, hi)
         IN  IF h # 0 THEN h ELSE HighNonZero(u, lo, mid)

\* drops the high zero bytes
NNorm(u) == The({ SubSeq(x, 1, HighNonZero(x, 1, Len(x))) : x \in {u} })

RECURSIVE NFromInt(_)
NFromInt(k) == IF k = 0 THEN <<>> ELSE <<k % ByteBase>> \o NFromInt(k \div ByteBase)

\* propagates carries (or borrows) through the columns cols[lo..hi], carry in c:
\* the bytes d and the carry out c
RECURSIVE CarryRec(_, _, _, _)
CarryRec(cols, lo, hi, c) ==
    IF lo > hi THEN [d |-> <<>>, c |-> c]
    ELSE IF lo = hi
    THEN LET s == cols[lo] + c
         IN  [d |-> <<s % ByteBase>>, c |-> s \div ByteBase]
    ELSE LET mid == (lo + hi) \div 2
             L   == CarryRec(cols, lo, mid, c)
             R   == CarryRec(cols, mid + 1, hi, L.c)
         IN  First(L, [d |-> L.d \o R.d, c |-> R.c])

Carry(cols) ==
    The({ NNorm(R.d \o NFromInt(R.c))
        : R \in {The({ CarryRec(x, 1, Len(x), 0) : x \in {cols} })} })

RECURSIVE NToIntRec(_, _)
NToIntRec(u, i) == IF i > Len(u) THEN 0 ELSE u[i] + ByteBase * NToIntRec(u, i + 1)

\* only for values known to fit TLC's integers
NToInt(u) == NToIntRec(u, 1)

\* compares a[lo..hi] with b[lo..hi] from the top
RECURSIVE NCmpRec(_, _, _, _)
NCmpRec(u, v, lo, hi) ==
    IF lo > hi THEN 0
    ELSE IF lo = hi
    THEN (IF u[lo] < v[lo] THEN -1 ELSE IF u[lo] > v[lo] THEN 1 ELSE 0)
    ELSE LET mid == (lo + hi) \div 2
             h   == NCmpRec(u, v, mid + 1, hi)
         IN  IF h # 0 THEN h ELSE NCmpRec(u, v, lo, mid)

\* -1, 0, 1 as a < b, a = b, a > b
NCmp(u, v) ==
    The({ IF Len(x) < Len(y) THEN -1
          ELSE IF Len(x) > Len(y) THEN 1
          ELSE NCmpRec(x, y, 1, Len(x))
        : x \in {u}, y \in {v} })

NLt(u, v) == NCmp(u, v) < 0
NLe(u, v) == NCmp(u, v) <= 0
NIsZero(u) == u = <<>>

NAdd(u, v) ==
    The({ Carry([i \in 1..Max2(Len(x), Len(y)) |-> Limb(x, i) + Limb(y, i)])
        : x \in {u}, y \in {v} })

\* a - b for a >= b
NSub(u, v) ==
    The({ Carry([i \in 1..Len(x) |-> x[i] - Limb(y, i)]) : x \in {u}, y \in {v} })

\* a * k for a small k (k < 2^23)
NMulSmall(u, k) == The({ Carry([i \in 1..Len(x) |-> x[i] * k]) : x \in {u} })

\* sum of a[i] * b[k + 1 - i] for i in lo..hi
RECURSIVE ColSum(_, _, _, _, _)
ColSum(u, v, k, lo, hi) ==
    IF lo > hi THEN 0
    ELSE IF lo = hi THEN u[lo] * v[k + 1 - lo]
    ELSE LET mid == (lo + hi) \div 2
         IN  ColSum(u, v, k, lo, mid) + ColSum(u, v, k, mid + 1, hi)

\* schoolbook product, column by column
NMul(u, v) ==
    The({ IF x = <<>> \/ y = <<>> THEN <<>>
          ELSE Carry([k \in 1..(Len(x) + Len(y) - 1) |->
                       ColSum(x, y, k, Max2(1, k + 1 - Len(y)), Min2(k, Len(x)))])
        : x \in {u}, y \in {v} })

\* the q with q * b <= r < (q + 1) * b, for b <= r < ByteBase * b.  With B the
\* top two bytes of b and R the bytes of r from the same place up,
\* R \div (B + 1) <= q <= R \div B, which leaves two candidates at most.
QDigit(r, v) ==
    The({ IF low = 0 THEN NToInt(r) \div NToInt(v)
          ELSE The({ MaxOf({q \in Max2(1, R \div (B + 1)) .. Min2(ByteBase - 1, R \div B) :
                              NLe(NMulSmall(v, q), r)})
                   : R \in {NToInt(SubSeq(r, low + 1, Len(r)))},
                     B \in {NToInt(SubSeq(v, low + 1, Len(v)))} })
        : low \in {Max2(0, Len(v) - 2)} })

\* long division of the bytes a[lo..hi], taken from the top, with the
\* remainder r carried in: the quotient bytes q and the remainder r
RECURSIVE NDivModRec(_, _, _, _, _)
NDivModRec(u, v, lo, hi, r) ==
    IF lo > hi THEN [q |-> <<>>, r |-> r]
    ELSE IF lo = hi
    THEN LET r1 == NNorm(<<u[lo]>> \o r)
             d  == IF NLt(r1, v) THEN 0 ELSE QDigit(r1, v)
         IN  [q |-> <<d>>, r |-> IF d = 0 THEN r1 ELSE NSub(r1, NMulSmall(v, d))]
    ELSE LET mid == (lo + hi) \div 2
             H   == NDivModRec(u, v, mid + 1, hi, r)
             L   == NDivModRec(u, v, lo, mid, H.r)
         IN  First(H, [q |-> L.q \o H.q, r |-> L.r])

\* quotient and remainder of a by b # 0
NDivMod(u, v) ==
    The({ [q |-> NNorm(R.q), r |-> R.r]
        : R \in {The({ NDivModRec(x, y, 1, Len(x), <<>>) : x \in {u}, y \in {v} })} })
NDiv(u, v) == NDivMod(u, v).q
NMod(u, v) == NDivMod(u, v).r

RECURSIVE NPow(_, _)
NPow(base, e) ==
    IF e = 0 THEN <<1>>
    ELSE LET h == NPow(base, e \div 2)
         IN  IF e % 2 = 0 THEN NMul(h, h) ELSE NMul(NMul(h, h), base)

N0 == <<>>
N1 == <<1>>
NTen == <<10>>

\* 2^bits
NPow2(bits) == [i \in 1..(bits \div kBitsPerByte) |-> 0] \o <<2 ^ (bits % kBitsPerByte)>>

\* a mod 2^bits: the conversion to a narrower unsigned type
NLowBits(u, bits) ==
    The({ IF bits % kBitsPerByte = 0
          THEN NNorm(SubSeq(x, 1, Min2(Len(x), bits \div kBitsPerByte)))
          ELSE NMod(x, NPow2(bits))
        : x \in {u} })

NShl(u, bits) ==
    The({ IF x = <<>> THEN x
          ELSE IF bits % kBitsPerByte = 0
          THEN [i \in 1..(bits \div kBitsPerByte) |-> 0] \o x
          ELSE NMul(x, NPow2(bits))
        : x \in {u} })

NShr(u, bits) ==
    The({ IF bits % kBitsPerByte = 0
          THEN SubSeq(x, bits \div kBitsPerByte + 1, Len(x))
          ELSE NDiv(x, NPow2(bits))
        : x \in {u} })

kBitsPerUint64 == 64
kBitsPerInt128 == 128
kBytesPerWord == kBitsPerUint64 \div kBitsPerByte

\* FixedUint<64, n>::NonZeroLength: the number of 64-bit words up to the
\* highest nonzero one
NonZeroLength(u) == (Len(u) + kBytesPerWord - 1) \div kBytesPerWord

\* the value of the decimal digits ds[lo..hi], the most significant first
RECURSIVE NFromDigitsRec(_, _, _)
NFromDigitsRec(ds, lo, hi) ==
    IF lo > hi THEN <<>>
    ELSE IF lo = hi THEN NFromInt(ds[lo])
    ELSE LET mid == (lo + hi) \div 2
         IN  NAdd(NMul(NFromDigitsRec(ds, lo, mid), NPow(NTen, hi - mid)),
                  NFromDigitsRec(ds, mid + 1, hi))

\* a number written as its decimal digits
Dec(ds) == The({ NFromDigitsRec(x, 1, Len(x)) : x \in {ds} })

\* FixedUint<64, n>(std::array<uint64_t, n>): the words, least significant first
RECURSIVE NFromWords(_)
NFromWords(ws) ==
    IF ws = <<>> THEN <<>>
    ELSE NAdd(Head(ws), NShl(NFromWords(Tail(ws)), kBitsPerUint64))

\* number()[i], words counted from 0
NWord(u, i) == NLowBits(NShr(u, kBitsPerUint64 * i), kBitsPerUint64)

(***************************************************************************)
(* Signed values: [neg, mag], zero never negative.                         *)
(***************************************************************************)
IMk(neg, mag) == The({ [neg |-> neg /\ m # <<>>, mag |-> m] : m \in {mag} })
IZero == IMk(FALSE, <<>>)
INat(mag) == IMk(FALSE, mag)
INeg(x) == The({ IMk(~v.neg, v.mag) : v \in {x} })
IIsZero(x) == x.mag = <<>>
IIsNeg(x) == x.neg

IAdd(x, y) ==
    The({ IF v.neg = w.neg THEN IMk(v.neg, NAdd(v.mag, w.mag))
          ELSE IF NLe(w.mag, v.mag) THEN IMk(v.neg, NSub(v.mag, w.mag))
          ELSE IMk(w.neg, NSub(w.mag, v.mag))
        : v \in {x}, w \in {y} })

ISub(x, y) == IAdd(x, INeg(y))
IMul(x, y) == The({ IMk(v.neg # w.neg, NMul(v.mag, w.mag)) : v \in {x}, w \in {y} })

\* -1, 0, 1
ICmp(x, y) ==
    The({ IF v.neg /\ ~w.neg THEN -1
          ELSE IF ~v.neg /\ w.neg THEN 1
          ELSE IF v.neg THEN NCmp(w.mag, v.mag)
          ELSE NCmp(v.mag, w.mag)
        : v \in {x}, w \in {y} })

ILt(x, y) == ICmp(x, y) < 0
ILe(x, y) == ICmp(x, y) <= 0

\* C++ integer division: the quotient truncated toward zero
IDivTrunc(x, y) == The({ IMk(v.neg # w.neg, NDiv(v.mag, w.mag)) : v \in {x}, w \in {y} })

\* C++ remainder: zero or of the sign of the dividend
IRem(x, y) == The({ IMk(v.neg, NMod(v.mag, y.mag)) : v \in {x} })

\* static_cast to a signed type of the given width of an unsigned value of
\* that width: two's complement
SignedOfUnsigned(u, bits) ==
    The({ IF NLt(v, NPow2(bits - 1)) THEN IMk(FALSE, v)
          ELSE IMk(TRUE, NSub(NPow2(bits), v))
        : v \in {u} })

\* static_cast to an unsigned type of the given width: the value mod 2^bits
UnsignedOfSigned(x, bits) ==
    The({ The({ IF v.neg /\ m # <<>> THEN NSub(NPow2(bits), m) ELSE m
              : m \in {NLowBits(v.mag, bits)} })
        : v \in {x} })

\* negation in an unsigned type of the given width
UNeg(u, bits) ==
    The({ IF v = <<>> THEN v ELSE NSub(NPow2(bits), NLowBits(v, bits)) : v \in {u} })

\* conversion of any integer to a signed type of the given width
WrapSigned(x, bits) == SignedOfUnsigned(UnsignedOfSigned(x, bits), bits)

(***************************************************************************)
(* NumericValue: the constants.                                            *)
(***************************************************************************)
kMaxIntegerDigits == 29
kMaxFractionalDigits == 9
kBigNumericMaxFractionalDigits == 38

\* NumericValue::kScalingFactor = internal::k1e9
kScalingFactor == NPow(NTen, kMaxFractionalDigits)
k1e19 == NPow(NTen, 19)
\* internal::kNumericMax = 10^38 - 1, internal::kNumericMin = -kNumericMax
kNumericMax == NSub(NPow(NTen, kMaxIntegerDigits + kMaxFractionalDigits), N1)
kNumericMaxInt == INat(kNumericMax)
kNumericMinInt == INeg(kNumericMaxInt)

\* the result of a function that returns bool and fills an output
Parsed(v) == [ok |-> TRUE, v |-> v]
NotParsed == [ok |-> FALSE, v |-> <<>>]

\* StatusOr<value>: a value, or an error with its message
Ok(v) == [ok |-> TRUE, v |-> v, err |-> ""]
Error(msg) == [ok |-> FALSE, v |-> IZero, err |-> msg]

int128_sign(x) == The({ IF IIsZero(v) THEN 0 ELSE IF v.neg THEN -1 ELSE 1 : v \in {x} })

\* int128_abs: the magnitude as unsigned __int128
int128_abs(x) ==
    The({ IF ~v.neg THEN v.mag ELSE UNeg(UnsignedOfSigned(v, kBitsPerInt128), kBitsPerInt128)
        : v \in {x} })

\* FromFixedUint without its two range checks
FromFixedUintUnchecked(val, negate) == Ok(IMk(negate, val))

\* NumericValue::FromFixedUint
FromFixedUint(val, negate) ==
    The({ IF NonZeroLength(value) <= kBitsPerInt128 \div kBitsPerUint64
          THEN The({ IF NLe(v, kNumericMax)
                     THEN Ok(SignedOfUnsigned(IF negate THEN UNeg(v, kBitsPerInt128) ELSE v,
                                              kBitsPerInt128))
                     ELSE Error("numeric overflow")
                   : v \in {NLowBits(value, kBitsPerInt128)} })
          ELSE Error("numeric overflow")
        : value \in {val} })

\* NumericValue::FromPackedInt: the range check on a packed __int128
FromPackedInt(x) ==
    The({ IF ILe(value, kNumericMaxInt) /\ ILe(kNumericMinInt, value) THEN Ok(value)
          ELSE Error("numeric overflow")
        : value \in {x} })

\* kOverflowThreshold of NumericValue::Multiply, as its four 64-bit words
kOverflowThreshold ==
    NFromWords(<<Dec(<<6,4,5,0,9,8,4,2,5,3,2,4,3,1,6,9,5,3,6>>),
                 Dec(<<1,3,0,1,5,5,0,3,8,4,0,4,8,1,6,9,7,4,1,2>>),
                 Dec(<<2,9,3,8,7,3,5,8,7>>),
                 <<>> >>)

\* Multiply with the threshold itself let through
MultiplyThresholdOffByOne(lh, rh) ==
    LET product == NMul(int128_abs(lh), int128_abs(rh))
    IN  IF NLe(product, kOverflowThreshold)
        THEN LET res == NDiv(NAdd(product, NDiv(kScalingFactor, <<2>>)), kScalingFactor)
                 v   == NLowBits(res, kBitsPerInt128)
             IN  Ok(SignedOfUnsigned(IF lh.neg = rh.neg THEN v
                                     ELSE UNeg(v, kBitsPerInt128), kBitsPerInt128))
        ELSE Error("numeric overflow")

\* NumericValue::Multiply
Multiply(lh, rh) ==
    LET negative    == lh.neg
        rh_negative == rh.neg
        product     == NMul(int128_abs(lh), int128_abs(rh))
    IN  IF NLt(product, kOverflowThreshold)
        THEN LET sum == NLowBits(NAdd(product, NDiv(kScalingFactor, <<2>>)), 4 * kBitsPerUint64)
                 res == NDiv(NLowBits(sum, 5 * 32), kScalingFactor)
                 v   == NLowBits(res, kBitsPerInt128)
             IN  Ok(SignedOfUnsigned(IF negative = rh_negative THEN v
                                     ELSE UNeg(v, kBitsPerInt128), kBitsPerInt128))
        ELSE Error("numeric overflow")

\* NumericValue::Abs
Abs(value) == SignedOfUnsigned(int128_abs(value), kBitsPerInt128)

\* NumericValue::Sign: the NumericValue of the integer -1, 0 or 1
Sign(value) ==
    LET sg == int128_sign(value)
    IN  IMk(sg < 0, IF sg = 0 THEN <<>> ELSE kScalingFactor)

\* Divide without the half divisor added: the quotient truncated
DivideTruncating(lh, rh) ==
    IF ~IIsZero(rh)
    THEN LET scaled == NMul(int128_abs(lh), kScalingFactor)
             res    == FromFixedUint(NDiv(scaled, int128_abs(rh)), lh.neg # rh.neg)
         IN  IF res.ok THEN res ELSE Error("numeric overflow")
    ELSE Error("division by zero")

\* NumericValue::Divide
Divide(lh, rh) ==
    LET is_negative    == lh.neg
        rh_is_negative == rh.neg
    IN  IF ~IIsZero(rh)
        THEN LET divisor == int128_abs(rh)
                 scaled  == NLowBits(NMul(int128_abs(lh), kScalingFactor), 3 * kBitsPerUint64)
                 rounded == NLowBits(NAdd(scaled, NShr(divisor, 1)), 3 * kBitsPerUint64)
                 res     == FromFixedUint(NDiv(rounded, divisor), is_negative # rh_is_negative)
             IN  IF res.ok THEN res ELSE Error("numeric overflow")
        ELSE Error("division by zero")

\* IntegerDivide with the range test against kNumericMax, not kNumericMax / scale
IntegerDivideWideRange(lh, rh) ==
    IF ~IIsZero(rh)
    THEN LET value == IDivTrunc(lh, rh)
         IN  IF ILe(value, kNumericMaxInt) /\ ILe(kNumericMinInt, value)
             THEN Ok(WrapSigned(IMul(value, INat(kScalingFactor)), kBitsPerInt128))
             ELSE Error("numeric overflow")
    ELSE Error("division by zero")

\* NumericValue::IntegerDivide
IntegerDivide(lh, rh) ==
    IF ~IIsZero(rh)
    THEN LET value == IDivTrunc(lh, rh)
         IN  IF ILe(value, IDivTrunc(kNumericMaxInt, INat(kScalingFactor)))
                /\ ILe(IDivTrunc(kNumericMinInt, INat(kScalingFactor)), value)
             THEN Ok(WrapSigned(IMul(value, INat(kScalingFactor)), kBitsPerInt128))
             ELSE Error("numeric overflow")
    ELSE Error("division by zero")

\* Mod with the remainder of floored division: the sign of the divisor
ModFloored(lh, rh) ==
    IF ~IIsZero(rh)
    THEN LET r == IRem(lh, rh)
         IN  Ok(IF ~IIsZero(r) /\ r.neg # rh.neg THEN IAdd(r, rh) ELSE r)
    ELSE Error("division by zero")

\* NumericValue::Mod
Mod(lh, rh) ==
    IF ~IIsZero(rh) THEN Ok(IRem(lh, rh)) ELSE Error("division by zero")

(***************************************************************************)
(* NumericValue: rounding.                                                 *)
(***************************************************************************)
\* an int64_t or int32_t as a signed value
IInt(i) == IF i < 0 THEN IMk(TRUE, NFromInt(0 - i)) ELSE INat(NFromInt(i))

\* NumericValue::GetFractionalPart: as_packed_int() % kScalingFactor
GetFractionalPart(value) == IRem(value, INat(kScalingFactor))

\* RoundConst32 without the half divisor added: the dividend truncated
RoundConst32Truncating(divisor, round_away_from_zero, dividend) ==
    ISub(dividend, IRem(dividend, INat(divisor)))

\* RoundConst32<divisor>; divisor / 2 and divisor / -2 truncate toward zero
RoundConst32(divisor, round_away_from_zero, dividend) ==
    The({ ISub(adjusted, IRem(adjusted, INat(divisor)))
        : adjusted \in {IF round_away_from_zero
                        THEN WrapSigned(IAdd(dividend,
                                             IMk(dividend.neg, NDiv(divisor, <<2>>))),
                                        kBitsPerInt128)
                        ELSE dividend} })

\* kMaxDigits and kTruncFactors of RoundInternal:
\* PowersDesc<__int128, 10, 10, kMaxDigits>() = {10^38, 10^37, ..., 10}
kMaxDigits == kMaxFractionalDigits + kMaxIntegerDigits
kTruncFactors == [i \in 0..(kMaxDigits - 1) |-> NPow(NTen, kMaxDigits - i)]

\* the default case of RoundInternal: rounding by kTruncFactors
RoundByTruncFactor(trunc_factor, round_away_from_zero, value) ==
    The({ ISub(adjusted, IRem(adjusted, INat(trunc_factor)))
        : adjusted \in {IF round_away_from_zero
                        THEN WrapSigned(IAdd(value, IMk(value.neg, NShr(trunc_factor, 1))),
                                        kBitsPerInt128)
                        ELSE value} })

\* NumericValue::RoundInternal
RoundInternal(value, digits, round_away_from_zero) ==
    IF digits >= kMaxFractionalDigits THEN Ok(value)
    ELSE IF digits < 0 - kMaxIntegerDigits THEN Ok(IZero)
    ELSE The({ IF res_status.ok THEN res_status ELSE Error("numeric overflow")
             : res_status \in {FromPackedInt(
                 IF digits = 0
                 THEN RoundConst32(kScalingFactor, round_away_from_zero, value)
                 ELSE IF digits = 1
                 THEN RoundConst32(NPow(NTen, 8), round_away_from_zero, value)
                 ELSE IF digits = 2
                 THEN RoundConst32(NPow(NTen, 7), round_away_from_zero, value)
                 ELSE IF digits = 3
                 THEN RoundConst32(NPow(NTen, 6), round_away_from_zero, value)
                 ELSE RoundByTruncFactor(kTruncFactors[digits + kMaxIntegerDigits],
                                         round_away_from_zero, value))} })

\* NumericValue::Round
Round(value, digits) == RoundInternal(value, digits, TRUE)

\* Trunc that rounds away from zero: ValueOrDie() of Round
TruncAwayFromZero(value, digits) ==
    LET res == RoundInternal(value, digits, TRUE)
    IN  IF res.ok THEN res ELSE Error("crash")

\* NumericValue::Trunc: ValueOrDie() of the rounding; an error is a crash
Trunc(value, digits) ==
    LET res == RoundInternal(value, digits, FALSE)
    IN  IF res.ok THEN res ELSE Error("crash")

\* NumericValue::Ceiling
\* Ceiling with the whole fractional part subtracted: truncation toward zero
CeilingTowardZero(value) ==
    LET fract_part == GetFractionalPart(value)
        res_status == FromPackedInt(ISub(value, fract_part))
    IN  IF res_status.ok THEN res_status ELSE Error("numeric overflow")

Ceiling(value) ==
    LET fract_part == GetFractionalPart(value)
        res_status == FromPackedInt(
            ISub(value, IF ~fract_part.neg /\ ~IIsZero(fract_part)
                        THEN ISub(fract_part, INat(kScalingFactor))
                        ELSE fract_part))
    IN  IF res_status.ok THEN res_status ELSE Error("numeric overflow")

\* NumericValue::Floor
Floor(value) ==
    LET fract_part == GetFractionalPart(value)
        res_status == FromPackedInt(
            ISub(value, IF fract_part.neg
                        THEN IAdd(fract_part, INat(kScalingFactor))
                        ELSE fract_part))
    IN  IF res_status.ok THEN res_status ELSE Error("numeric overflow")

(***************************************************************************)
(* NumericValue: Power.                                                    *)
(***************************************************************************)
kScalingFactorSquare == NMul(kScalingFactor, kScalingFactor)
kScalingFactorCube == NMul(kScalingFactorSquare, kScalingFactor)

\* FixedUint<64, size>::DivAndRoundAwayFromZero: (n + d / 2) / d
DivAndRoundAwayFromZero(num, d) == NDiv(NAdd(num, NShr(d, 1)), d)

\* RemoveDoubleScale<size>: input / kScalingFactor^2, rounded
RemoveDoubleScale(input, size) ==
    The({ IF NLt(sum, NPow2(kBitsPerUint64 * size))
             /\ NLt(NWord(sum, size - 1), kScalingFactorSquare)
          THEN The({ The({ Parsed(NLowBits(twice, kBitsPerUint64 * (size - 1)))
                         : twice \in {NDiv(once, kScalingFactor)} })
                   : once \in {NDiv(sum, kScalingFactor)} })
          ELSE NotParsed
        : sum \in {NAdd(input, NDiv(kScalingFactorSquare, <<2>>))} })

\* the step of DoubleScaledPower for an odd exp: result * power, unscaled
MultiplyResult(double_scaled_result, double_scaled_power) ==
    The({ IF NWord(tmp_scaled_4x, 4) # <<>> \/ NWord(tmp_scaled_4x, 5) # <<>>
          THEN NotParsed
          ELSE RemoveDoubleScale(NLowBits(tmp_scaled_4x, 4 * kBitsPerUint64), 4)
        : tmp_scaled_4x \in {NMul(double_scaled_result, double_scaled_power)} })

\* the step of DoubleScaledPower for every bit of exp: power * power, unscaled
SquarePower(double_scaled_power) ==
    The({ RemoveDoubleScale(NMul(truncated_power, truncated_power), 4)
        : truncated_power \in {NLowBits(double_scaled_power, 2 * kBitsPerUint64)} })

\* the variables of the loop of DoubleScaledPower; done once it has returned,
\* and then ok is the value returned
PowerLoopState(done, ok, double_scaled_result, double_scaled_power, exp) ==
    [done |-> done, ok |-> ok, result |-> double_scaled_result,
     power |-> double_scaled_power, exp |-> exp]

PowerLoopReturn(ok, double_scaled_result) ==
    PowerLoopState(TRUE, ok, double_scaled_result, <<>>, <<>>)

\* one pass through the body of the loop of DoubleScaledPower
DoubleScaledPowerIteration(s) ==
    IF s.done THEN s
    ELSE The({ IF ~result.ok THEN PowerLoopReturn(FALSE, <<>>)
               ELSE IF NLe(s.exp, N1) THEN PowerLoopReturn(TRUE, result.v)
               ELSE IF NWord(s.power, 2) # <<>> THEN PowerLoopReturn(FALSE, <<>>)
               ELSE The({ IF ~power.ok THEN PowerLoopReturn(FALSE, <<>>)
                          ELSE PowerLoopState(FALSE, TRUE, result.v, power.v,
                                              NShr(s.exp, 1))
                        : power \in {SquarePower(s.power)} })
             : result \in {IF s.exp # <<>> /\ s.exp[1] % 2 = 1
                           THEN MultiplyResult(s.result, s.power)
                           ELSE Parsed(s.result)} })

\* the loop of DoubleScaledPower: the given number of passes, one after the
\* other (the first half of them, then the rest)
RECURSIVE DoubleScaledPowerLoop(_, _)
DoubleScaledPowerLoop(s, passes) ==
    IF passes = 1 THEN DoubleScaledPowerIteration(s)
    ELSE The({ DoubleScaledPowerLoop(half, passes - passes \div 2)
             : half \in {DoubleScaledPowerLoop(s, passes \div 2)} })

\* DoubleScaledPower: double_scaled_value ^ unscaled_exp, scaled by
\* kScalingFactorSquare; not ok when the result is too big.  exp is halved in
\* every pass and the loop returns when exp <= 1, so that an unsigned __int128
\* exp makes at most kBitsPerInt128 passes.
DoubleScaledPower(double_scaled_value, unscaled_exp) ==
    The({ IF s.ok THEN Parsed(s.result) ELSE NotParsed
        : s \in {DoubleScaledPowerLoop(
                     PowerLoopState(FALSE, TRUE, kScalingFactorSquare,
                                    double_scaled_value, unscaled_exp),
                     kBitsPerInt128)} })

\* MultiplyByFractionalPower: dest times fract_term, the NumericValue that
\* FromDouble makes of std::pow of the two doubles
MultiplyByFractionalPower(fract_term, dest) ==
    IF ~fract_term.ok THEN [ok |-> FALSE, v |-> <<>>, err |-> fract_term.err]
    ELSE The({ IF NWord(ret, 3) = <<>> /\ NWord(ret, 4) = <<>>
               THEN [ok |-> TRUE, v |-> NLowBits(ret, 3 * kBitsPerUint64), err |-> ""]
               ELSE [ok |-> FALSE, v |-> <<>>, err |-> "numeric overflow"]
             : ret \in {NMul(dest, int128_abs(fract_term.v))} })

\* PowerInternal for a negative exponent and abs_value > 1:
\* 1 / abs_value ^ -exp
InversePower(abs_value, abs_integer_exp, fract_exp, result_is_negative, fract_term) ==
    The({ IF ~power.ok \/ NLt(NMulSmall(kScalingFactorCube, 2), power.v)
          THEN Ok(IZero)
          ELSE IF IIsZero(fract_exp)
          THEN FromFixedUint(DivAndRoundAwayFromZero(kScalingFactorCube, power.v),
                             result_is_negative)
          ELSE The({ IF ~numerator.ok THEN Error(numerator.err)
                     ELSE FromFixedUint(DivAndRoundAwayFromZero(numerator.v, power.v),
                                        result_is_negative)
                   : numerator \in {MultiplyByFractionalPower(fract_term,
                                                              kScalingFactorSquare)} })
        : power \in {DoubleScaledPower(NMul(abs_value, kScalingFactor), abs_integer_exp)} })

\* PowerInternal otherwise: double_scaled_value ^ |exp|
DirectPower(double_scaled_value, abs_integer_exp, fract_exp, result_is_negative, fract_term) ==
    The({ IF ~power.ok THEN Error("numeric overflow")
          ELSE IF IIsZero(fract_exp)
          THEN FromFixedUint(DivAndRoundAwayFromZero(power.v, kScalingFactor),
                             result_is_negative)
          ELSE The({ IF ~term.ok THEN Error(term.err)
                     ELSE The({ IF ~ret.ok THEN Error("numeric overflow")
                                ELSE FromFixedUint(ret.v, result_is_negative)
                              : ret \in {RemoveDoubleScale(term.v, 3)} })
                   : term \in {MultiplyByFractionalPower(fract_term, power.v)} })
        : power \in {DoubleScaledPower(double_scaled_value, abs_integer_exp)} })

\* NumericValue::PowerInternal
PowerInternal(value, exp, fract_term) ==
    IF IIsZero(exp) THEN Ok(INat(kScalingFactor))
    ELSE IF IIsZero(value)
    THEN IF exp.neg THEN Error("division by zero") ELSE Ok(IZero)
    ELSE The({
        IF value.neg /\ parts.r # <<>>
        THEN Error("Negative NUMERIC value cannot be raised to a fractional power")
        ELSE IF exp.neg /\ NLt(kScalingFactor, abs_value)
        THEN InversePower(abs_value, parts.q, IMk(exp.neg, parts.r),
                          value.neg /\ parts.q # <<>> /\ parts.q[1] % 2 = 1, fract_term)
        ELSE The({ DirectPower(double_scaled_value, parts.q, IMk(exp.neg, parts.r),
                               value.neg /\ parts.q # <<>> /\ parts.q[1] % 2 = 1,
                               fract_term)
                 : double_scaled_value \in
                     {IF ~exp.neg THEN NMul(abs_value, kScalingFactor)
                      ELSE DivAndRoundAwayFromZero(kScalingFactorCube, abs_value)} })
        : parts \in {NDivMod(int128_abs(exp), kScalingFactor)},
          abs_value \in {int128_abs(value)} })

\* Power with the test for a zero base made before the test for a zero exponent
PowerZeroBaseFirst(value, exp, fract_term) ==
    IF IIsZero(value)
    THEN IF exp.neg THEN Error("division by zero") ELSE Ok(IZero)
    ELSE PowerInternal(value, exp, fract_term)

\* Power of the absolute value of the base
PowerOfAbsoluteValue(value, exp, fract_term) ==
    PowerInternal(IMk(FALSE, value.mag), exp, fract_term)

\* NumericValue::Power: PowerInternal, its error extended by the operands
Power(value, exp, fract_term) == PowerInternal(value, exp, fract_term)

(***************************************************************************)
(* Conversion from double.  A double is its class and, when finite, the    *)
(* DoubleParts of MathUtil::Decompose: value = mantissa * 2^exponent.      *)
(***************************************************************************)
Double(cls, negative, abs_mantissa, exponent) ==
    [cls |-> cls, mantissa |-> IMk(negative, abs_mantissa), exponent |-> exponent]

\* the index of the highest bit set in a byte
RECURSIVE ByteMSB(_)
ByteMSB(x) == IF x <= 1 THEN 0 ELSE 1 + ByteMSB(x \div 2)

\* FixedUint::FindMSBSetNonZero
FindMSBSetNonZero(x) == kBitsPerByte * (Len(x) - 1) + ByteMSB(x[Len(x)])

\* ScaleAndRoundAwayFromZero without the round-away step: the bits shifted out
\* are dropped
ScaleAndTruncate(scale, value, kNumOutputBits) ==
    LET parts        == value
        negative     == parts.mantissa.neg
        abs_mantissa == parts.mantissa.mag
        abs_result   == NMul(abs_mantissa, scale)
        shifted      == NShr(abs_result, 0 - parts.exponent)
        msb_idx      == FindMSBSetNonZero(abs_result)
    IN  IF IIsZero(parts.mantissa) THEN Parsed(IZero)
        ELSE IF parts.exponent <= 0 - kNumOutputBits THEN Parsed(IZero)
        ELSE IF parts.exponent >= kNumOutputBits - 1 THEN [ok |-> FALSE, v |-> IZero]
        ELSE IF parts.exponent < 0 THEN Parsed(IMk(negative, shifted))
        ELSE IF parts.exponent > 0
        THEN IF msb_idx >= kNumOutputBits - 1 - parts.exponent
             THEN [ok |-> FALSE, v |-> IZero]
             ELSE Parsed(IMk(negative, NShl(abs_result, parts.exponent)))
        ELSE Parsed(IMk(negative, abs_result))

\* ScaleAndRoundAwayFromZero<S, T>, T of the given number of bits
ScaleAndRoundAwayFromZero(scale, value, kNumOutputBits) ==
    LET parts        == value
        negative     == parts.mantissa.neg
        abs_mantissa == parts.mantissa.mag
        abs_result   == NMul(abs_mantissa, scale)
        shifted      == NShr(NAdd(NShr(abs_result, 0 - 1 - parts.exponent), N1), 1)
        msb_idx      == FindMSBSetNonZero(abs_result)
    IN  IF IIsZero(parts.mantissa) THEN Parsed(IZero)
        ELSE IF parts.exponent <= 0 - kNumOutputBits THEN Parsed(IZero)
        ELSE IF parts.exponent >= kNumOutputBits - 1 THEN [ok |-> FALSE, v |-> IZero]
        ELSE IF parts.exponent < 0 THEN Parsed(IMk(negative, shifted))
        ELSE IF parts.exponent > 0
        THEN IF msb_idx >= kNumOutputBits - 1 - parts.exponent
             THEN [ok |-> FALSE, v |-> IZero]
             ELSE Parsed(IMk(negative, NShl(abs_result, parts.exponent)))
        ELSE Parsed(IMk(negative, abs_result))

\* std::numeric_limits<double>::quiet_NaN()
QuietNaN == Double("nan", FALSE, <<>>, 0)

\* operator<< of a double that is not finite
PrintNonFinite(value) ==
    (IF value.mantissa.neg THEN "-" ELSE "") \o value.cls

\* the error of FromDouble for a double that is not finite
IllegalConversion(type, value) ==
    Error("Illegal conversion of non-finite floating point number to " \o type \o ": "
          \o PrintNonFinite(IF value.cls = "nan" THEN QuietNaN ELSE value))

\* FromDouble without FromPackedInt's test of the range
FromDoubleUnchecked(value) ==
    LET result == ScaleAndRoundAwayFromZero(kScalingFactor, value, kBitsPerInt128)
    IN  IF value.cls # "finite" THEN IllegalConversion("numeric", value)
        ELSE IF result.ok THEN Ok(result.v)
        ELSE Error("numeric out of range")

\* NumericValue::FromDouble
FromDouble(value) ==
    LET result       == ScaleAndRoundAwayFromZero(kScalingFactor, value, kBitsPerInt128)
        value_status == FromPackedInt(result.v)
    IN  IF value.cls # "finite" THEN IllegalConversion("numeric", value)
        ELSE IF result.ok /\ value_status.ok THEN value_status
        ELSE Error("numeric out of range")

(***************************************************************************)
(* Bytes: little-endian two's complement.                                  *)
(***************************************************************************)
\* x in len bytes, little-endian two's complement
Encode(x, len) ==
    LET u == UnsignedOfSigned(x, kBitsPerByte * len)
    IN  [i \in 1..len |-> IF i <= Len(u) THEN u[i] ELSE 0]

\* FixedInt::SerializeToBytes, appended to dest: the least number of bytes whose
\* last byte's high bit is the sign
SerializeToBytes(dest, x, bits) ==
    LET fits(len) == IF x.neg THEN NLe(x.mag, NPow2(kBitsPerByte * len - 1))
                     ELSE NLt(x.mag, NPow2(kBitsPerByte * len - 1))
    IN  dest \o Encode(x, MinOf({len \in 1..(bits \div kBitsPerByte) : fits(len)}))

\* FixedInt<64, n>::DeserializeFromBytes: 1 to 8n bytes, the last one
\* extended by its sign
DeserializeFromBytes(bytes, bits) ==
    IF bytes = <<>> \/ Len(bytes) > bits \div kBitsPerByte
    THEN [ok |-> FALSE, v |-> IZero]
    ELSE IF bytes[Len(bytes)] >= ByteBase \div 2
    THEN Parsed(IMk(TRUE, NSub(NPow2(kBitsPerByte * Len(bytes)), NNorm(bytes))))
    ELSE Parsed(IMk(FALSE, NNorm(bytes)))

\* NumericValue::DeserializeFromProtoBytes
DeserializeFromProtoBytes(bytes) ==
    LET value == DeserializeFromBytes(bytes, kBitsPerInt128)
    IN  IF value.ok THEN FromPackedInt(value.v)
        ELSE Error("Invalid numeric encoding")

\* SerializeAsProtoBytes with the byte after the highest nonzero one never added
SerializeAsProtoBytesOfMagnitude(value) ==
    IF IIsZero(value) THEN <<0>>
    ELSE SubSeq(Encode(value, kBitsPerInt128 \div kBitsPerByte), 1,
                FindMSBSetNonZero(int128_abs(value)) \div kBitsPerByte + 1)

\* SerializeAsProtoBytes with the byte after the highest nonzero one always added
SerializeAsProtoBytesPadded(value) ==
    IF IIsZero(value) THEN <<0>>
    ELSE SubSeq(Encode(value, kBitsPerInt128 \div kBitsPerByte), 1,
                FindMSBSetNonZero(int128_abs(value)) \div kBitsPerByte + 2)

\* NumericValue::SerializeAsProtoBytes
SerializeAsProtoBytes(value) ==
    IF IIsZero(value) THEN <<0>>
    ELSE LET abs_value == int128_abs(value)
             abs_value_hi == NWord(abs_value, 1)
             abs_value_lo == NWord(abs_value, 0)
             non_zero_bit_idx ==
                 IF abs_value_hi # <<>>
                 THEN FindMSBSetNonZero(abs_value_hi) + kBitsPerUint64
                 ELSE FindMSBSetNonZero(abs_value_lo)
             idx == non_zero_bit_idx \div kBitsPerByte
             non_zero_byte == NToInt(NLowBits(NShr(abs_value, idx * kBitsPerByte),
                                              kBitsPerByte))
             non_zero_byte_idx == IF non_zero_byte >= ByteBase \div 2 THEN idx + 1 ELSE idx
         IN  SubSeq(Encode(value, kBitsPerInt128 \div kBitsPerByte), 1, non_zero_byte_idx + 1)

\* NumericValue::SerializeAndAppendToProtoBytes
SerializeAndAppendToProtoBytes(bytes, value) == SerializeToBytes(bytes, value, kBitsPerInt128)

(***************************************************************************)
(* Aggregators.                                                            *)
(***************************************************************************)
kBitsPerSum == 3 * kBitsPerUint64

\* NumericValue::FromFixedInt: the range check on a wider signed integer
FromFixedInt(x) ==
    IF ILe(x, kNumericMaxInt) /\ ILe(kNumericMinInt, x) THEN Ok(x)
    ELSE Error("numeric overflow")

\* NumericValue::SumAggregator::Add: sum_ += value, in 192 bits
SumAggregatorAdd(sum, value) == WrapSigned(IAdd(sum, value), kBitsPerSum)

\* NumericValue::SumAggregator::GetSum
SumAggregatorGetSum(sum) ==
    LET res_status == FromFixedInt(sum)
    IN  IF res_status.ok THEN res_status ELSE Error("numeric overflow: SUM")

\* GetAverage of the sum narrowed to a NumericValue before the division
SumAggregatorGetAverageOfSum(sum, cnt) ==
    LET sum_status == FromFixedInt(sum)
    IN  IF cnt = 0 THEN Error("division by zero: AVG")
        ELSE IF ~sum_status.ok THEN Error("numeric overflow: AVG")
        ELSE Ok(IMk(sum.neg, DivAndRoundAwayFromZero(sum.mag, NFromInt(cnt))))

\* NumericValue::SumAggregator::GetAverage
SumAggregatorGetAverage(sum, cnt) ==
    LET dividend   == IMk(sum.neg, DivAndRoundAwayFromZero(sum.mag, NFromInt(cnt)))
        res_status == FromFixedInt(dividend)
    IN  IF cnt = 0 THEN Error("division by zero: AVG")
        ELSE IF res_status.ok THEN res_status
        ELSE Error("numeric overflow: AVG")

kInt128Min == INeg(INat(NPow2(kBitsPerInt128 - 1)))
kInt128Max == INat(NSub(NPow2(kBitsPerInt128 - 1), N1))

\* NumericValue::Aggregator::MergeWith that carries one up at every overflow
\* of the lower words
AggregatorMergeWithCarryUp(lower, upper, other_lower, other_upper) ==
    LET total    == IAdd(lower, other_lower)
        overflow == ILt(kInt128Max, total) \/ ILt(total, kInt128Min)
        carry    == IF ~overflow THEN IZero ELSE IInt(1)
    IN  [sum_lower |-> WrapSigned(total, kBitsPerInt128),
         sum_upper |-> WrapSigned(IAdd(IAdd(upper, carry), other_upper), kBitsPerUint64)]

\* NumericValue::Aggregator::MergeWith: the aggregator after the merge
AggregatorMergeWith(lower, upper, other_lower, other_upper) ==
    LET total    == IAdd(lower, other_lower)
        overflow == ILt(kInt128Max, total) \/ ILt(total, kInt128Min)
        carry    == IF ~overflow THEN IZero
                    ELSE IF other_lower.neg THEN IInt(-1) ELSE IInt(1)
    IN  [sum_lower |-> WrapSigned(total, kBitsPerInt128),
         sum_upper |-> WrapSigned(IAdd(IAdd(upper, carry), other_upper), kBitsPerUint64)]

\* NumericValue::Aggregator::Add: the sum of the lower words, the carry to
\* the upper one
AggregatorAdd(lower, upper, value) == AggregatorMergeWith(lower, upper, value, IZero)

\* NumericValue::Aggregator::GetSum
AggregatorGetSum(lower, upper) ==
    LET res_status == FromPackedInt(lower)
    IN  IF ~IIsZero(upper) THEN Error("numeric overflow: SUM")
        ELSE IF ~res_status.ok THEN Error("numeric overflow: SUM")
        ELSE res_status

\* NumericValue::Aggregator::GetAverage
AggregatorGetAverage(sum_lower, sum_upper, cnt) ==
    LET upper_abs0 == sum_upper.mag
        negate     == IF upper_abs0 = <<>> THEN sum_lower.neg ELSE sum_upper.neg
        lower      == IF upper_abs0 = <<>>
                      THEN IF sum_lower # kInt128Min
                           THEN SignedOfUnsigned(int128_abs(sum_lower), kBitsPerInt128)
                           ELSE sum_lower
                      ELSE IF negate /\ sum_lower # kInt128Min
                           THEN INeg(sum_lower) ELSE sum_lower
        upper_abs  == IF upper_abs0 # <<>> /\ lower.neg
                      THEN NSub(upper_abs0, N1) ELSE upper_abs0
        dividend   == NAdd(NShl(upper_abs, kBitsPerInt128),
                           UnsignedOfSigned(lower, kBitsPerInt128))
        quotient   == NDiv(NLowBits(NAdd(dividend, NFromInt(cnt \div 2)), kBitsPerSum),
                           NFromInt(cnt))
        res_status == FromFixedUint(quotient, negate)
    IN  IF cnt = 0 THEN Error("division by zero: AVG")
        ELSE IF res_status.ok THEN res_status
        ELSE Error("numeric overflow: AVG")

(***************************************************************************)
(* The statistics aggregators: sums, sums of squares and sums of products  *)
(* in FixedInt<64, 3> and FixedInt<64, 5>.                                 *)
(***************************************************************************)
kBitsPerSumSquare == 5 * kBitsPerUint64
kBitsPerNumerator == 6 * kBitsPerUint64

\* FixedInt<64, k>::operator+= and operator-=: two's complement in bits bits
FixedIntAdd(x, y, bits) == WrapSigned(IAdd(x, y), bits)
FixedIntSubtract(x, y, bits) == WrapSigned(ISub(x, y), bits)

\* ExtendAndMultiply: the full product, as wide as both factors together
ExtendAndMultiply(x, y) == IMul(x, y)

\* NumericValue::SumAggregator::MergeWith
SumAggregatorMergeWith(self, that) ==
    [sum_ |-> FixedIntAdd(self.sum_, that.sum_, kBitsPerSum)]

\* NumericValue::VarianceAggregator::Add
VarianceAggregatorAdd(self, value) ==
    [sum_        |-> FixedIntAdd(self.sum_, value, kBitsPerSum),
     sum_square_ |-> FixedIntAdd(self.sum_square_, ExtendAndMultiply(value, value),
                                 kBitsPerSumSquare)]

\* VarianceAggregator::Subtract that takes the value from the sum alone
VarianceAggregatorSubtractSum(self, value) ==
    [sum_        |-> FixedIntSubtract(self.sum_, value, kBitsPerSum),
     sum_square_ |-> self.sum_square_]

\* NumericValue::VarianceAggregator::Subtract
VarianceAggregatorSubtract(self, value) ==
    [sum_        |-> FixedIntSubtract(self.sum_, value, kBitsPerSum),
     sum_square_ |-> FixedIntSubtract(self.sum_square_, ExtendAndMultiply(value, value),
                                      kBitsPerSumSquare)]

\* NumericValue::VarianceAggregator::MergeWith
VarianceAggregatorMergeWith(self, that) ==
    [sum_        |-> FixedIntAdd(self.sum_, that.sum_, kBitsPerSum),
     sum_square_ |-> FixedIntAdd(self.sum_square_, that.sum_square_, kBitsPerSumSquare)]

\* NumericValue::CovarianceAggregator::Add
CovarianceAggregatorAdd(self, x, y) ==
    [sum_product_ |-> FixedIntAdd(self.sum_product_, ExtendAndMultiply(x, y),
                                  kBitsPerSumSquare),
     sum_x_       |-> FixedIntAdd(self.sum_x_, x, kBitsPerSum),
     sum_y_       |-> FixedIntAdd(self.sum_y_, y, kBitsPerSum)]

\* NumericValue::CovarianceAggregator::Subtract
CovarianceAggregatorSubtract(self, x, y) ==
    [sum_product_ |-> FixedIntSubtract(self.sum_product_, ExtendAndMultiply(x, y),
                                       kBitsPerSumSquare),
     sum_x_       |-> FixedIntSubtract(self.sum_x_, x, kBitsPerSum),
     sum_y_       |-> FixedIntSubtract(self.sum_y_, y, kBitsPerSum)]

\* CovarianceAggregator::MergeWith that leaves sum_y_ as it was
CovarianceAggregatorMergeWithoutY(self, that) ==
    [sum_product_ |-> FixedIntAdd(self.sum_product_, that.sum_product_, kBitsPerSumSquare),
     sum_x_       |-> FixedIntAdd(self.sum_x_, that.sum_x_, kBitsPerSum),
     sum_y_       |-> self.sum_y_]

\* NumericValue::CovarianceAggregator::MergeWith
CovarianceAggregatorMergeWith(self, that) ==
    [sum_product_ |-> FixedIntAdd(self.sum_product_, that.sum_product_, kBitsPerSumSquare),
     sum_x_       |-> FixedIntAdd(self.sum_x_, that.sum_x_, kBitsPerSum),
     sum_y_       |-> FixedIntAdd(self.sum_y_, that.sum_y_, kBitsPerSum)]

\* NumericValue::CorrelationAggregator::Add
CorrelationAggregatorAdd(self, x, y) ==
    [cov_agg_      |-> CovarianceAggregatorAdd(self.cov_agg_, x, y),
     sum_square_x_ |-> FixedIntAdd(self.sum_square_x_, ExtendAndMultiply(x, x),
                                   kBitsPerSumSquare),
     sum_square_y_ |-> FixedIntAdd(self.sum_square_y_, ExtendAndMultiply(y, y),
                                   kBitsPerSumSquare)]

\* NumericValue::CorrelationAggregator::Subtract
CorrelationAggregatorSubtract(self, x, y) ==
    [cov_agg_      |-> CovarianceAggregatorSubtract(self.cov_agg_, x, y),
     sum_square_x_ |-> FixedIntSubtract(self.sum_square_x_, ExtendAndMultiply(x, x),
                                        kBitsPerSumSquare),
     sum_square_y_ |-> FixedIntSubtract(self.sum_square_y_, ExtendAndMultiply(y, y),
                                        kBitsPerSumSquare)]

\* NumericValue::CorrelationAggregator::MergeWith
CorrelationAggregatorMergeWith(self, that) ==
    [cov_agg_      |-> CovarianceAggregatorMergeWith(self.cov_agg_, that.cov_agg_),
     sum_square_x_ |-> FixedIntAdd(self.sum_square_x_, that.sum_square_x_,
                                   kBitsPerSumSquare),
     sum_square_y_ |-> FixedIntAdd(self.sum_square_y_, that.sum_square_y_,
                                   kBitsPerSumSquare)]

\* the default-constructed aggregators: every accumulator is zero
EmptySumAggregator == [sum_ |-> IZero]
EmptyVarianceAggregator == [sum_ |-> IZero, sum_square_ |-> IZero]
EmptyCovarianceAggregator == [sum_product_ |-> IZero, sum_x_ |-> IZero, sum_y_ |-> IZero]
EmptyCorrelationAggregator ==
    [cov_agg_ |-> EmptyCovarianceAggregator, sum_square_x_ |-> IZero, sum_square_y_ |-> IZero]

(***************************************************************************)
(* Strings are sequences of one-character strings.                         *)
(***************************************************************************)
Digits == <<"0", "1", "2", "3", "4", "5", "6", "7", "8", "9">>
DigitSet == {Digits[i] : i \in 1..10}
DigitChar(d) == Digits[d + 1]
DigitVal(c) == (CHOOSE i \in 1..10 : Digits[i] = c) - 1

\* absl::ascii_isdigit, std::isdigit
IsDigit(c) == c \in DigitSet
\* absl::ascii_isspace
IsSpace(c) == c \in {" ", "\t", "\n", "\r"}

\* the decimal digits of a < 10^k, k of them, the most significant first
RECURSIVE NToDigitsRec(_, _)
NToDigitsRec(u, k) ==
    IF k = 1 THEN <<NToInt(u)>>
    ELSE LET h  == k \div 2
             qr == NDivMod(u, NPow(NTen, h))
         IN  NToDigitsRec(qr.q, k - h) \o NToDigitsRec(qr.r, h)

\* FixedUint::AppendToString: the shortest decimal form, "0" for zero
NToString(u) ==
    IF u = <<>> THEN <<"0">>
    ELSE LET ds    == NToDigitsRec(u, 3 * Len(u))
             first == MinOf({i \in 1..Len(ds) : ds[i] # 0})
         IN  [i \in 1..(Len(ds) - first + 1) |-> DigitChar(ds[first + i - 1])]

\* FixedInt::AppendToString: a '-' before the digits of a negative value
IToString(x) == (IF x.neg THEN <<"-">> ELSE <<>>) \o NToString(x.mag)

\* std::string::insert(pos, count, ch), pos counted from 0
StrInsert(str, pos, count, ch) ==
    SubSeq(str, 1, pos) \o [i \in 1..count |-> ch] \o SubSeq(str, pos + 1, Len(str))

\* AddDecimalPointAndAdjustZeros that adds no zeros to a value smaller than 1
AddDecimalPointWithoutPadding(first_digit_index, scale, output) ==
    LET string_length     == Len(output)
        fixed_uint_str    == SubSeq(output, first_digit_index + 1, string_length)
        fixed_uint_length == Len(fixed_uint_str)
        last_not_zero     == MaxOf({i \in 1..fixed_uint_length : fixed_uint_str[i] # "0"}) - 1
        zeros_to_truncate == Min2(fixed_uint_length - last_not_zero - 1, scale)
        resized           == SubSeq(output, 1, string_length - zeros_to_truncate)
    IN  IF fixed_uint_length < scale + 1
        THEN StrInsert(StrInsert(resized, first_digit_index, 1, "."),
                       first_digit_index, 1, "0")
        ELSE IF zeros_to_truncate < scale
        THEN StrInsert(resized, string_length - scale, 1, ".")
        ELSE resized

\* AddDecimalPointAndAdjustZeros that truncates no zeros
AddDecimalPointKeepingZeros(first_digit_index, scale, output) ==
    LET string_length     == Len(output)
        fixed_uint_length == string_length - first_digit_index
    IN  IF fixed_uint_length < scale + 1
        THEN [StrInsert(output, first_digit_index, scale + 2 - fixed_uint_length, "0")
                EXCEPT ![first_digit_index + 2] = "."]
        ELSE StrInsert(output, string_length - scale, 1, ".")

\* AddDecimalPointAndAdjustZeros; first_digit_index is counted from 0
AddDecimalPointAndAdjustZeros(first_digit_index, scale, output) ==
    LET string_length     == Len(output)
        fixed_uint_str    == SubSeq(output, first_digit_index + 1, string_length)
        fixed_uint_length == Len(fixed_uint_str)
        \* find_last_not_of('0'), counted from 0
        last_not_zero     == MaxOf({i \in 1..fixed_uint_length : fixed_uint_str[i] # "0"}) - 1
        zeros_to_truncate == Min2(fixed_uint_length - last_not_zero - 1, scale)
        resized           == SubSeq(output, 1, string_length - zeros_to_truncate)
    IN  IF fixed_uint_length < scale + 1
        THEN [StrInsert(resized, first_digit_index, scale + 2 - fixed_uint_length, "0")
                EXCEPT ![first_digit_index + 2] = "."]
        ELSE IF zeros_to_truncate < scale
        THEN StrInsert(resized, string_length - scale, 1, ".")
        ELSE resized

\* NumericValue::AppendToString to an empty string: ToString
NumericToString(value) ==
    IF IIsZero(value) THEN <<"0">>
    ELSE AddDecimalPointAndAdjustZeros(IF IIsNeg(value) THEN 1 ELSE 0,
                                       kMaxFractionalDigits, IToString(value))

\* BigNumericValue::AppendToString to an empty string: ToString
BigNumericToString(value) ==
    IF IIsZero(value) THEN <<"0">>
    ELSE AddDecimalPointAndAdjustZeros(IF IIsNeg(value) THEN 1 ELSE 0,
                                       38, IToString(value))

(***************************************************************************)
(* Parsing.                                                                *)
(***************************************************************************)
\* the ASCII code of the characters the model's inputs are written in
CharCode(c) ==
    IF IsDigit(c) THEN 48 + DigitVal(c)
    ELSE IF c = "\t" THEN 9
    ELSE IF c = "\n" THEN 10
    ELSE IF c = "\r" THEN 13
    ELSE IF c = " " THEN 32
    ELSE IF c = "+" THEN 43
    ELSE IF c = "-" THEN 45
    ELSE IF c = "." THEN 46
    ELSE IF c = "E" THEN 69
    ELSE IF c = "e" THEN 101
    ELSE 120

\* c >= '5'
AtLeast5(c) == CharCode(c) >= CharCode("5")

AllDigits(str) == \A i \in 1..Len(str) : IsDigit(str[i])
AllZeros(str) == \A i \in 1..Len(str) : str[i] = "0"

\* the value of a string of decimal digits
DigitsValue(str) == Dec([i \in 1..Len(str) |-> DigitVal(str[i])])

\* FixedUint<64, n>::ParseFromStringSegments(first_segment, {segment}):
\* the digits of both, read as one number that fits the n words
ParseFromStringSegments(first_segment, segment, bits) ==
    LET str == first_segment \o segment
    IN  IF AllDigits(str) /\ NLt(DigitsValue(str), NPow2(bits))
        THEN Parsed(DigitsValue(str)) ELSE NotParsed

\* FixedUint<64, n>::ParseFromStringStrict: decimal digits only, at least one
ParseFromStringStrict(str, bits) ==
    IF str # <<>> THEN ParseFromStringSegments(str, <<>>, bits) ELSE NotParsed

\* FixedInt<64, n>::SetSignAndAbs: the magnitude must fit the signed range
SetSignAndAbs(negative, abs, bits) ==
    IF NLt(abs, NPow2(bits - 1)) \/ (negative /\ abs = NPow2(bits - 1))
    THEN [ok |-> TRUE, v |-> IMk(negative, abs)]
    ELSE [ok |-> FALSE, v |-> IZero]

\* FixedInt<64, n>::ParseFromStringStrict: an optional sign, then digits
SignedParseFromStringStrict(str, bits) ==
    LET signed == str # <<>> /\ str[1] \in {"-", "+"}
        abs    == ParseFromStringStrict(IF signed THEN Tail(str) ELSE str, bits)
    IN  IF abs.ok THEN SetSignAndAbs(str[1] = "-", abs.v, bits)
        ELSE [ok |-> FALSE, v |-> IZero]

\* std::numeric_limits<int64_t>::min() and max()
kInt64Min == INeg(INat(NPow2(kBitsPerUint64 - 1)))
kInt64Max == INat(NSub(NPow2(kBitsPerUint64 - 1), N1))

\* no ENotationParts: SplitENotationParts returned false
NoParts ==
    [ok |-> FALSE, negative |-> FALSE,
     int_part |-> <<>>, fract_part |-> <<>>, exp_part |-> <<>>]

\* SplitENotationParts
SplitENotationParts(str) ==
    LET length   == Len(str)
        nonspace == {i \in 1..length : ~IsSpace(str[i])}
    IN  IF nonspace = {} THEN NoParts
        ELSE
        LET first    == MinOf(nonspace)
            last     == MaxOf(nonspace)
            negative == str[first] = "-"
            start    == IF str[first] \in {"-", "+"} THEN first + 1 ELSE first
            es       == {i \in start..last : str[i] \in {"e", "E"}}
            epos     == IF es = {} THEN 0 ELSE MaxOf(es)
            exp_part == IF es = {} THEN <<>> ELSE SubSeq(str, epos + 1, last)
            end1     == IF es = {} THEN last ELSE epos - 1
            dots     == {i \in start..end1 : str[i] = "."}
            dpos     == IF dots = {} THEN 0 ELSE MinOf(dots)
            fract    == IF dots = {} THEN <<>> ELSE SubSeq(str, dpos + 1, end1)
            end2     == IF dots = {} THEN end1 ELSE dpos - 1
        IN  IF es # {} /\ exp_part = <<>> THEN NoParts
            ELSE [ok |-> TRUE, negative |-> negative,
                  int_part |-> SubSeq(str, start, end2),
                  fract_part |-> fract, exp_part |-> exp_part]

\* ParseExponent that refuses an exponent below the least int64_t
ParseExponentUnsaturated(exp_part, extra_scale) ==
    IF exp_part = <<>> THEN [ok |-> TRUE, exp |-> INat(NFromInt(extra_scale))]
    ELSE LET exp_fixed_int == SignedParseFromStringStrict(exp_part, kBitsPerUint64)
             sum           == IAdd(exp_fixed_int.v, INat(NFromInt(extra_scale)))
         IN  IF exp_fixed_int.ok /\ ILe(sum, kInt64Max)
             THEN [ok |-> TRUE, exp |-> sum]
             ELSE [ok |-> FALSE, exp |-> IZero]

\* ParseExponent: the exponent plus extra_scale, as an int64_t
ParseExponent(exp_part, extra_scale) ==
    IF exp_part = <<>> THEN [ok |-> TRUE, exp |-> INat(NFromInt(extra_scale))]
    ELSE LET exp_fixed_int == SignedParseFromStringStrict(exp_part, kBitsPerUint64)
             sum           == IAdd(exp_fixed_int.v, INat(NFromInt(extra_scale)))
         IN  IF exp_fixed_int.ok
             THEN IF ILt(kInt64Max, sum) THEN [ok |-> FALSE, exp |-> IZero]
                  ELSE [ok |-> TRUE, exp |-> sum]
             ELSE IF Len(exp_part) > 1 /\ exp_part[1] = "-"
             THEN IF AllDigits(Tail(exp_part)) THEN [ok |-> TRUE, exp |-> kInt64Min]
                  ELSE [ok |-> FALSE, exp |-> IZero]
             ELSE [ok |-> FALSE, exp |-> IZero]

\* FixedUint<64, n>::MultiplyOverflow: the product, if it fits the n words
MultiplyOverflow(output, factor, bits) ==
    LET product == NMul(output, factor)
    IN  IF NLt(product, NPow2(bits)) THEN Parsed(product) ELSE NotParsed

\* the scaling loop of ParseNumber: output * 10^extra_exp, 19 digits at a time;
\* a zero output stays zero however often it is multiplied
RECURSIVE ScaleUp(_, _, _)
ScaleUp(output, extra_exp, bits) ==
    IF output = <<>> THEN Parsed(output)
    ELSE IF NLe(NFromInt(19), extra_exp)
    THEN LET m == MultiplyOverflow(output, k1e19, bits)
         IN  IF m.ok THEN ScaleUp(m.v, NSub(extra_exp, NFromInt(19)), bits) ELSE NotParsed
    ELSE IF extra_exp # <<>>
    THEN MultiplyOverflow(output, NPow(NTen, NToInt(extra_exp)), bits)
    ELSE Parsed(output)

\* ParseNumber<n>: int_part.fract_part * 10^exp as a FixedUint<64, n>
ParseNumber(int_part, fract_part, exp, strict, bits) ==
    LET nonneg   == ~exp.neg
        \* exp >= 0: promote up to exp fractional digits
        within   == nonneg /\ NLt(exp.mag, NFromInt(Len(fract_part)))
        num_promoted_fract_digits ==
                    IF within THEN NToInt(exp.mag) ELSE Len(fract_part)
        promoted_fract_part == SubSeq(fract_part, 1, num_promoted_fract_digits)
        parsedUp == IF int_part = <<>>
                    THEN ParseFromStringStrict(promoted_fract_part, bits)
                    ELSE ParseFromStringSegments(int_part, promoted_fract_part, bits)
        scaledUp == IF parsedUp.ok
                    THEN ScaleUp(parsedUp.v,
                                 NSub(exp.mag, NFromInt(num_promoted_fract_digits)), bits)
                    ELSE NotParsed
        \* exp < 0: demote up to -exp digits of int_part
        demote   == ~nonneg /\ NLe(exp.mag, NFromInt(Len(int_part)))
        int_digits == IF demote THEN Len(int_part) - NToInt(exp.mag) ELSE 0
        parsedDn == IF demote /\ int_digits # 0
                    THEN ParseFromStringStrict(SubSeq(int_part, 1, int_digits), bits)
                    ELSE Parsed(<<>>)
        round_up == IF nonneg THEN within /\ AtLeast5(fract_part[num_promoted_fract_digits + 1])
                    ELSE demote /\ AtLeast5(int_part[int_digits + 1])
        value    == IF nonneg THEN scaledUp
                    ELSE IF Len(int_part) + Len(fract_part) = 0 THEN NotParsed
                    ELSE parsedDn
        \* the characters not visited: the digits to be discarded
        int_rest   == IF nonneg THEN <<>>
                      ELSE SubSeq(int_part, int_digits + 1, Len(int_part))
        fract_rest == IF nonneg
                      THEN SubSeq(fract_part, num_promoted_fract_digits + 1, Len(fract_part))
                      ELSE fract_part
        discarded  == IF strict THEN AllZeros(int_rest) /\ AllZeros(fract_rest)
                      ELSE AllDigits(int_rest) /\ AllDigits(fract_rest)
        rounded    == NAdd(value.v, N1)
    IN  IF ~value.ok \/ ~discarded THEN NotParsed
        ELSE IF round_up
        THEN IF NLt(rounded, NPow2(bits)) THEN Parsed(rounded) ELSE NotParsed
        ELSE value

\* NumericValue::FromStringInternal
FromStringInternal(str, is_strict) ==
    The(UNION {UNION {UNION {{
        IF parts.ok /\ exp.ok /\ abs.ok /\ number_or_status.ok
        THEN number_or_status
        ELSE Error("Invalid NUMERIC value")
        : number_or_status \in {FromFixedUint(abs.v, parts.negative)}}
        : abs \in {ParseNumber(parts.int_part, parts.fract_part, exp.exp, is_strict,
                               2 * kBitsPerUint64)}}
        : exp \in {ParseExponent(parts.exp_part, kMaxFractionalDigits)}}
        : parts \in {SplitENotationParts(str)}})

\* NumericValue::FromStringStrict, NumericValue::FromString
FromStringStrict(str) == FromStringInternal(str, TRUE)
FromString(str) == FromStringInternal(str, FALSE)

\* FromStringInternal without SetSignAndAbs's test of the signed range
BigNumericFromStringInternalUnchecked(str, is_strict) ==
    The(UNION {UNION {{
        IF parts.ok /\ exp.ok /\ abs.ok
        THEN Ok(IMk(parts.negative, abs.v))
        ELSE Error("Invalid BIGNUMERIC value")
        : abs \in {ParseNumber(parts.int_part, parts.fract_part, exp.exp, is_strict,
                               4 * kBitsPerUint64)}}
        : exp \in {ParseExponent(parts.exp_part, kBigNumericMaxFractionalDigits)}}
        : parts \in {SplitENotationParts(str)}})

\* BigNumericValue::FromStringInternal
BigNumericFromStringInternal(str, is_strict) ==
    The(UNION {UNION {UNION {{
        IF parts.ok /\ exp.ok /\ abs.ok /\ result.ok
        THEN Ok(result.v)
        ELSE Error("Invalid BIGNUMERIC value")
        : result \in {SetSignAndAbs(parts.negative, abs.v, 4 * kBitsPerUint64)}}
        : abs \in {ParseNumber(parts.int_part, parts.fract_part, exp.exp, is_strict,
                               4 * kBitsPerUint64)}}
        : exp \in {ParseExponent(parts.exp_part, kBigNumericMaxFractionalDigits)}}
        : parts \in {SplitENotationParts(str)}})

\* BigNumericValue::FromStringStrict, BigNumericValue::FromString
BigNumericFromStringStrict(str) == BigNumericFromStringInternal(str, TRUE)
BigNumericFromString(str) == BigNumericFromStringInternal(str, FALSE)

(***************************************************************************)
(* BigNumericValue: a FixedInt<64, 4> scaled by 10^38.                     *)
(***************************************************************************)
kBitsPerBigNumeric == 4 * kBitsPerUint64

\* BigNumericValue::ScalingFactor()
ScalingFactor == NPow(NTen, kBigNumericMaxFractionalDigits)

\* BigNumericValue::RemoveScalingFactor<n>: value / 10^38, rounded, in n - 1
\* words
RemoveScalingFactor(value, num) ==
    NLowBits(NDiv(NAdd(value, NShr(ScalingFactor, 1)), ScalingFactor),
             kBitsPerUint64 * (num - 1))

\* BigNumericValue::Multiply
BigNumericMultiply(lh, rh) ==
    LET abs_result_64x8 == NMul(lh.mag, rh.mag)
        abs_result_64x5 == RemoveScalingFactor(NLowBits(abs_result_64x8, 6 * kBitsPerUint64), 6)
        result          == SetSignAndAbs(lh.neg # rh.neg,
                                         NLowBits(abs_result_64x5, kBitsPerBigNumeric),
                                         kBitsPerBigNumeric)
    IN  IF NWord(abs_result_64x8, 6) = <<>> /\ NWord(abs_result_64x8, 7) = <<>>
           /\ NWord(abs_result_64x5, 4) = <<>> /\ result.ok
        THEN Ok(result.v)
        ELSE Error("BigNumeric overflow")

\* BigNumericValue::Divide
BigNumericDivide(lh, rh) ==
    LET scaled_abs_value == NLowBits(
            DivAndRoundAwayFromZero(NMul(lh.mag, ScalingFactor), rh.mag),
            6 * kBitsPerUint64)
        result == SetSignAndAbs(lh.neg # rh.neg,
                                NLowBits(scaled_abs_value, kBitsPerBigNumeric),
                                kBitsPerBigNumeric)
    IN  IF IIsZero(rh) THEN Error("division by zero")
        ELSE IF NWord(scaled_abs_value, 4) = <<>> /\ NWord(scaled_abs_value, 5) = <<>>
                /\ result.ok
        THEN Ok(result.v)
        ELSE Error("BigNumeric overflow")

\* BigNumericValue::FromDouble
BigNumericFromDouble(value) ==
    LET result == ScaleAndRoundAwayFromZero(ScalingFactor, value, kBitsPerBigNumeric)
    IN  IF value.cls # "finite" THEN IllegalConversion("BigNumeric", value)
        ELSE IF result.ok THEN Ok(result.v)
        ELSE Error("BigNumeric out of range")

\* BigNumericValue::DeserializeFromProtoBytes
BigNumericDeserializeFromProtoBytes(bytes) ==
    LET value == DeserializeFromBytes(bytes, kBitsPerBigNumeric)
    IN  IF value.ok THEN Ok(value.v) ELSE Error("Invalid BigNumericValue encoding")

\* BigNumericValue::SerializeAndAppendToProtoBytes
BigNumericSerializeAndAppendToProtoBytes(bytes, value) ==
    SerializeToBytes(bytes, value, kBitsPerBigNumeric)

(***************************************************************************)
(* The state: the operands picked, the operation applied to them and what  *)
(* it returned.                                                            *)
(***************************************************************************)
VARIABLES
    kind,        \* which operands this run has: "pair", "text", "value", ...
    op,          \* the last operation applied, "" before any
    a, b,        \* NumericValue or BigNumericValue operands
    n,           \* an integer argument: a digit count or a row count
    str,         \* a text, given or formatted
    dbl,         \* a double
    bytes,       \* a byte string
    sum_,        \* SumAggregator::sum_
    sum_lower_,  \* Aggregator::sum_lower_
    sum_upper_,  \* Aggregator::sum_upper_
    count,       \* the number of values added to the aggregator
    agg,         \* a statistics aggregator, the object of the calls
    other,       \* a second aggregator of the same class
    third,       \* a third aggregator of the same class
    rows,        \* the rows each of the three aggregators stands for
    out          \* what the operation returned

operands == <<kind, a, b, n, str, dbl, bytes>>
statistics == <<agg, other, third, rows>>
aggregators == <<sum_, sum_lower_, sum_upper_, count, statistics>>
vars == <<kind, op, a, b, n, str, dbl, bytes, sum_, sum_lower_, sum_upper_, count,
          agg, other, third, rows, out>>

NoResult == [ok |-> FALSE, v |-> IZero, err |-> "none"]

\* a run on operands of kind k starts with no operation applied
Start(k) == kind = k /\ op = "" /\ out = NoResult

NoValues == a = IZero /\ b = IZero /\ n = 0
NoText == str = <<>>
NoDouble == dbl = Double("finite", FALSE, <<>>, 0)
NoBytes == bytes = <<>>
NoRows == [agg |-> <<>>, other |-> <<>>, third |-> <<>>]
NoStatistics ==
    agg = EmptySumAggregator /\ other = EmptySumAggregator /\ third = EmptySumAggregator
    /\ rows = NoRows
NoSums ==
    sum_ = IZero /\ sum_lower_ = IZero /\ sum_upper_ = IZero /\ count = 0 /\ NoStatistics

\* op applied to the operands of this run, returning result
Apply(k, name, result) ==
    /\ kind = k
    /\ op = ""
    /\ op' = name
    /\ out' = result
    /\ UNCHANGED <<operands, aggregators>>

(***************************************************************************)
(* Two NumericValues.                                                      *)
(***************************************************************************)
MaxMantissa == 3

\* powers of ten at the unit (1e-9), below and at 1, at 1e19 and at 1e28
Pow10Exponents == {0, 8, kMaxFractionalDigits, 28, 37}

Half == NDiv(kScalingFactor, <<2>>)

\* pairs whose products are kOverflowThreshold and kOverflowThreshold - 1
ThresholdPair ==
    <<Dec(<<1,1,7,6,4,7,0,5,8,8,2,3,5,2,9,4,1,1,7,6,4,7,0,5,8,8,2,3,5,2,9,4,1,1,7,6,4,7>>),
      Dec(<<8,5,0,0,0,0,0,0,0,0>>)>>
BelowThresholdPair ==
    <<Dec(<<9,4,5,9,1,2,4,2,0,4,2,2,7,1,8,9,3,6,1,3,5,5,1,4,1,3,0,4,1,6,1>>),
      Dec(<<1,0,5,7,1,8,0,3,2,4,9,5,3,4,5,5,9>>)>>

NumericMagnitudes ==
    {NMulSmall(NPow(NTen, k), d) : d \in 1..MaxMantissa, k \in Pow10Exponents}
    \cup {N0, Half, NAdd(kScalingFactor, Half), NAdd(kScalingFactor, N1),
          kNumericMax, NSub(kNumericMax, N1),
          ThresholdPair[1], ThresholdPair[2],
          BelowThresholdPair[1], BelowThresholdPair[2]}

\* the NumericValues the operations are applied to: all in range
NumericInputs ==
    {IMk(sg, m) : sg \in BOOLEAN, m \in {x \in NumericMagnitudes : NLe(x, kNumericMax)}}

InitPair ==
    /\ Start("pair")
    /\ a \in NumericInputs /\ b \in NumericInputs /\ n = 0
    /\ NoText /\ NoDouble /\ NoBytes /\ NoSums

DoMultiply == Apply("pair", "Multiply", Multiply(a, b))
DoDivide == Apply("pair", "Divide", Divide(a, b))
DoIntegerDivide == Apply("pair", "IntegerDivide", IntegerDivide(a, b))
DoMod == Apply("pair", "Mod", Mod(a, b))

(***************************************************************************)
(* A base and an exponent.                                                 *)
(***************************************************************************)
\* the bases: zero, one unit, values below, at and above one, and the ends
PowerBases ==
    {IMk(sg, m) : sg \in BOOLEAN,
                  m \in {N0, N1, Half, kScalingFactor, NAdd(kScalingFactor, N1),
                         NMulSmall(kScalingFactor, 2), NMulSmall(kScalingFactor, 10),
                         NPow(NTen, 28), kNumericMax}}

\* the exponents: whole ones, ones with a fraction, and the ends
PowerExponents ==
    {IMk(sg, m) : sg \in BOOLEAN,
                  m \in {N0, Half, kScalingFactor, NAdd(kScalingFactor, Half),
                         NMulSmall(kScalingFactor, 2), NMulSmall(kScalingFactor, MaxMantissa),
                         NMulSmall(kScalingFactor, 97), kNumericMax}}

\* what FromDouble may make of std::pow(base, fraction of the exponent):
\* a NumericValue that is not negative, or no value; std::pow is not called
\* for an exponent without a fraction
FractTerms(exp) ==
    IF NMod(exp.mag, kScalingFactor) = <<>> THEN {Error("numeric out of range")}
    ELSE {Ok(INat(m)) : m \in {N0, Half, NMulSmall(kScalingFactor, 3), kNumericMax}}
         \cup {Error("numeric out of range")}

InitPower ==
    /\ Start("power")
    /\ a \in PowerBases /\ b \in PowerExponents /\ n = 0
    /\ NoText /\ NoDouble /\ NoBytes /\ NoSums

\* bases whose whole powers or their inverses are decimals of few digits, and
\* one just above one whose powers grow slowly
ExactPowerBases ==
    {IMk(sg, m) : sg \in BOOLEAN,
                  m \in {Half, kScalingFactor, NAdd(kScalingFactor, <<3>>),
                         NMulSmall(Half, 3), NMulSmall(NPow(NTen, 8), 16),
                         NMulSmall(kScalingFactor, 2), NMulSmall(kScalingFactor, 10),
                         NPow(NTen, 28)}}

\* the least exponent at which the power of 1.000000003 is out of range
SlowOverflowExponent == Dec(<<2,2,2,5,8,3,2,2,5,9,9>>)

\* whole exponents: small ones, the ones around 2^96.6 = 10^29, and the ends
WholeExponents ==
    {IMk(sg, NMul(k, kScalingFactor)) :
        sg \in BOOLEAN,
        k \in {NFromInt(i) : i \in {1, 2, MaxMantissa, 9, 10, 96, 97}}
              \cup {SlowOverflowExponent, NDiv(kNumericMax, kScalingFactor)}}

InitExactPower ==
    /\ Start("power")
    /\ a \in ExactPowerBases /\ b \in WholeExponents /\ n = 0
    /\ NoText /\ NoDouble /\ NoBytes /\ NoSums

DoPower == \E fract_term \in FractTerms(b) : Apply("power", "Power", Power(a, b, fract_term))

(***************************************************************************)
(* One value: formatted and parsed back, or rounded.                       *)
(***************************************************************************)
\* the values: one to MaxMantissa units of every decimal position, sums of
\* two of them, and the ends of the range
Positions == 0..(kMaxIntegerDigits + kMaxFractionalDigits - 1)

FormatMagnitudes ==
    {NMulSmall(NPow(NTen, k), d) : d \in 1..MaxMantissa, k \in Positions}
    \cup {NAdd(NPow(NTen, k), NMulSmall(NPow(NTen, j), MaxMantissa)) :
             k \in Pow10Exponents, j \in Pow10Exponents}
    \cup NumericMagnitudes

FormatInputs ==
    {IMk(sg, m) : sg \in BOOLEAN, m \in {x \in FormatMagnitudes : NLe(x, kNumericMax)}}

InitValue ==
    /\ Start("value")
    /\ a \in FormatInputs /\ b = IZero /\ n = 0
    /\ NoText /\ NoDouble /\ NoBytes /\ NoSums

DoToString ==
    /\ kind = "value" /\ op = ""
    /\ op' = "ToString"
    /\ str' = NumericToString(a)
    /\ UNCHANGED <<kind, a, b, n, dbl, bytes, aggregators, out>>

DoAbs == Apply("value", "Abs", Ok(Abs(a)))
DoSign == Apply("value", "Sign", Ok(Sign(a)))
DoCeiling == Apply("value", "Ceiling", Ceiling(a))
DoFloor == Apply("value", "Floor", Floor(a))

\* the digit counts: around -kMaxIntegerDigits, the fast paths 0 to 3, and
\* around kMaxFractionalDigits
DigitCounts == {-2147483647, -30, -29, -28, -10, -1, 0, 1, 2, 3, 4, 8, 9, 10, 2147483647}

RoundMagnitudes ==
    NumericMagnitudes
    \cup {NMulSmall(NPow(NTen, k), 5) : k \in Positions \ {kMaxDigits - 1}}
    \cup {NSub(NMulSmall(NPow(NTen, k), 5), N1) : k \in Pow10Exponents}
    \cup {Dec(<<1,2,3,4,5,0,0,0,0,0>>), Dec(<<1,2,3,5,0,0,0,0,0,0>>)}

RoundInputs ==
    {IMk(sg, m) : sg \in BOOLEAN, m \in {x \in RoundMagnitudes : NLe(x, kNumericMax)}}

InitRound ==
    /\ Start("round")
    /\ a \in RoundInputs /\ b = IZero /\ n \in DigitCounts
    /\ NoText /\ NoDouble /\ NoBytes /\ NoSums

DoRound == Apply("round", "Round", Round(a, n))
DoTrunc == Apply("round", "Trunc", Trunc(a, n))

(***************************************************************************)
(* A text.                                                                 *)
(***************************************************************************)
\* the texts tried: every string of at most MaxLen characters of Alphabet,
\* and longer texts that reach the digit limits, the exponent limits and
\* the rounding position
MaxLen == 4

Alphabet == {"0", "1", "5", ".", "e", "-", "+", " "}

LongTexts ==
    { <<" "," ","-","1",".","2","3","4","5","e","2"," ">>,
      <<"0",".","0","0","0","0","0","0","0","0","0","5">>,
      <<"0",".","0","0","0","0","0","0","0","0","1","4","9">>,
      <<"-","0",".","0","0","0","0","0","0","0","0","1","5">>,
      <<"1",".","5","0","0","0","0","0","0","0","0","0","0">>,
      <<".","5","e","-","9">>, <<".","0","e","-","9">>, <<".","1","e","-","0","9">>,
      <<"0",".","5","e","-","9">>, <<".","5","e","-","8">>, <<".","5","e","-","1","0">>,
      <<"5","e","-","1","0">>, <<"1","5","e","-","1","0">>, <<"1","5","0","e","-","1","1">>,
      <<"1","E","+","2">>, <<"1","E","2","8">>, <<"-","1","e","2","9">>, <<"1","x">>,
      <<"\t","1","\n">>, <<"1"," ","2">>, <<"1","e","1"," ","1">>, <<"0","e","9","9","9","9">>,
      <<"1","e","-","9","9","9","9","9","9","9","9","9","9","9","9","9","9","9","9","9","9","9","9">>,
      <<"1","e","9","9","9","9","9","9","9","9","9","9","9","9","9","9","9","9","9","9","9","9">>,
      <<"9","9","9","9","9","9","9","9","9","9","9","9","9","9","9","9","9","9","9","9","9","9","9","9","9","9","9","9","9",
        ".","9","9","9","9","9","9","9","9","9">>,
      <<"-","9","9","9","9","9","9","9","9","9","9","9","9","9","9","9","9","9","9","9","9","9","9","9","9","9","9","9","9","9",
        ".","9","9","9","9","9","9","9","9","9","5">>,
      <<"1","0","0","0","0","0","0","0","0","0","0","0","0","0","0","0","0","0","0","0","0","0","0","0","0","0","0","0","0","0">> }

\* the least BigNumericValue, the greatest, and one past each
BigLongTexts ==
    { <<"-","5","7","8","9","6","0","4","4","6","1","8","6","5","8","0","9","7","7","1","1","7","8","5","4","9","2","5","0","4","3","4","3","9","5","3","9","2","6","6",".","3","4","9","9","2","3","3","2","8","2","0","2","8","2","0","1","9","7","2","8","7","9","2","0","0","3","9","5","6","5","6","4","8","1","9","9","6","8">>,
      <<"5","7","8","9","6","0","4","4","6","1","8","6","5","8","0","9","7","7","1","1","7","8","5","4","9","2","5","0","4","3","4","3","9","5","3","9","2","6","6",".","3","4","9","9","2","3","3","2","8","2","0","2","8","2","0","1","9","7","2","8","7","9","2","0","0","3","9","5","6","5","6","4","8","1","9","9","6","8">>,
      <<"-","5","7","8","9","6","0","4","4","6","1","8","6","5","8","0","9","7","7","1","1","7","8","5","4","9","2","5","0","4","3","4","3","9","5","3","9","2","6","6",".","3","4","9","9","2","3","3","2","8","2","0","2","8","2","0","1","9","7","2","8","7","9","2","0","0","3","9","5","6","5","6","4","8","1","9","9","6","9">>,
      <<"5","7","8","9","6","0","4","4","6","1","8","6","5","8","0","9","7","7","1","1","7","8","5","4","9","2","5","0","4","3","4","3","9","5","3","9","2","6","6",".","3","4","9","9","2","3","3","2","8","2","0","2","8","2","0","1","9","7","2","8","7","9","2","0","0","3","9","5","6","5","6","4","8","1","9","9","6","7">> }

\* exponents at and past the limits of a 64-bit integer, and exponents that
\* are not numbers
ExponentTexts ==
    { <<"1","e","-","9","2","2","3","3","7","2","0","3","6","8","5","4","7","7","5","8","0","9">>,
      <<"5","e","-","9","2","2","3","3","7","2","0","3","6","8","5","4","7","7","5","8","0","8">>,
      <<"-",".","5","e","-","9","9","9","9","9","9","9","9","9","9","9","9","9","9","9","9","9","9","9","9">>,
      <<" ","1","5",".","5","E","-","1","0","0","0","0","0","0","0","0","0","0","0","0","0","0","0","0","0","0","0"," ">>,
      <<"1","e","-","9","9","9","9","9","9","9","9","9","9","9","9","9","9","9","9","9","9","9","9","x">>,
      <<"1","e","-","9","2","2","3","3","7","2","0","3","6","8","5","4","7","7","5","8","0","9","-">>,
      <<".","e","-","9","9","9","9","9","9","9","9","9","9","9","9","9","9","9","9","9","9","9","9">>,
      <<"1","e","9","2","2","3","3","7","2","0","3","6","8","5","4","7","7","5","7","9","9">>,
      <<"1","e","9","2","2","3","3","7","2","0","3","6","8","5","4","7","7","5","7","9","8">>,
      <<"1","e","+","9","2","2","3","3","7","2","0","3","6","8","5","4","7","7","5","8","0","8">>,
      <<"1","e","-","5","x">>,
      <<"1","e","5",".","0">> }

Texts == UNION {[1..k -> Alphabet] : k \in 0..MaxLen} \cup LongTexts \cup ExponentTexts

InitText ==
    /\ Start("text")
    /\ NoValues /\ str \in Texts
    /\ NoDouble /\ NoBytes /\ NoSums

InitBigText ==
    /\ Start("text")
    /\ NoValues /\ str \in Texts \cup BigLongTexts
    /\ NoDouble /\ NoBytes /\ NoSums

\* a text is given, or a value has been formatted
TextReady(given, formatted) ==
    <<kind, op>> \in {<<given, "">>, <<formatted, "ToString">>, <<formatted, "BigToString">>}

DoFromString ==
    /\ TextReady("text", "value")
    /\ op' = "FromString"
    /\ out' = FromString(str)
    /\ UNCHANGED <<operands, aggregators>>

DoFromStringStrict ==
    /\ TextReady("text", "value")
    /\ op' = "FromStringStrict"
    /\ out' = FromStringStrict(str)
    /\ UNCHANGED <<operands, aggregators>>

(***************************************************************************)
(* A double.                                                               *)
(***************************************************************************)
\* mantissas of 53 bits: the least, the greatest, and two between
Mantissas ==
    {NPow2(52), NAdd(NPow2(52), N1), NMulSmall(NPow2(51), MaxMantissa),
     NSub(NPow2(53), N1)}

\* binary exponents around the limits of both types
Exponents ==
    {-1126, -300, -257, -256, -255, -181, -180, -129, -128, -127, -84, -83, -82,
     -62, -60, -53, -52, -30, -23, -10, -1, 0, 1, 42, 43, 44, 45, 74, 75, 76, 126, 127, 128,
     201, 202, 254, 255, 256, 971}

Doubles ==
    {Double("finite", sg, m, e) : sg \in BOOLEAN, m \in Mantissas, e \in Exponents}
    \cup {Double("finite", FALSE, <<>>, 0), Double("nan", FALSE, <<>>, 0),
          Double("nan", TRUE, N1, 0),
          Double("inf", FALSE, <<>>, 0), Double("inf", TRUE, N1, 0)}

\* the doubles next to 1e29, the first value out of range: 1e29 rounded down
\* and up to 53 bits
BoundaryDoubles ==
    {Double("finite", sg, NAdd(Dec(<<5,6,8,4,3,4,1,8,8,6,0,8,0,8,0,1>>), d), 44) :
        sg \in BOOLEAN, d \in {N0, N1}}

InitBoundaryDouble ==
    /\ Start("double")
    /\ NoValues /\ NoText /\ dbl \in BoundaryDoubles /\ NoBytes /\ NoSums

InitDouble ==
    /\ Start("double")
    /\ NoValues /\ NoText /\ dbl \in Doubles /\ NoBytes /\ NoSums

DoFromDouble == Apply("double", "FromDouble", FromDouble(dbl))

(***************************************************************************)
(* A byte string.                                                          *)
(***************************************************************************)
MaxBytes == 2
ByteAlphabet == {0, 1, ByteBase \div 2 - 1, ByteBase \div 2, ByteBase - 1}
Lengths == {15, 16, 17, 31, 32, 33}

ByteStrings ==
    UNION {[1..k -> ByteAlphabet] : k \in 0..MaxBytes}
    \cup {Encode(x, len) : len \in Lengths,
            x \in {kNumericMaxInt, kNumericMinInt, IAdd(kNumericMaxInt, INat(N1)),
                   ISub(kNumericMinInt, INat(N1)), INat(N1), INeg(INat(N1)),
                   kInt128Min, kInt128Max,
                   INeg(INat(NPow2(4 * kBitsPerUint64 - 1))),
                   INat(NSub(NPow2(4 * kBitsPerUint64 - 1), N1))}}

InitBytes ==
    /\ Start("bytes")
    /\ NoValues /\ NoText /\ NoDouble /\ bytes \in ByteStrings /\ NoSums

DoDeserializeFromProtoBytes ==
    Apply("bytes", "DeserializeFromProtoBytes", DeserializeFromProtoBytes(bytes))

\* the value that was deserialized is serialized: the bytes come back in out
DoSerializeDeserialized ==
    /\ kind = "bytes" /\ op = "DeserializeFromProtoBytes" /\ out.ok
    /\ op' = "SerializeAsProtoBytes"
    /\ a' = out.v
    /\ out' = Ok(SerializeAsProtoBytes(out.v))
    /\ UNCHANGED <<kind, b, n, str, dbl, bytes, aggregators>>

(***************************************************************************)
(* A value on the wire: serialized, and the bytes deserialized.            *)
(***************************************************************************)
\* the lengths in bytes at which the values are taken
WireLengths == {1, 2, 3, 7, 8, 9, 15, 16}
BigWireLengths == {1, 16, 17, 31, 32}

\* the values around the ends of the range of every length, both signs
WireMagnitudes(lengths) ==
    {N0, N1, kScalingFactor}
    \cup UNION {{NSub(NPow2(kBitsPerByte * len - 1), N1),
                 NPow2(kBitsPerByte * len - 1),
                 NAdd(NPow2(kBitsPerByte * len - 1), N1),
                 NSub(NPow2(kBitsPerByte * len), N1)} : len \in lengths}

WireInputs ==
    {IMk(sg, m) : sg \in BOOLEAN,
                  m \in {x \in WireMagnitudes(WireLengths) \cup {kNumericMax} :
                            NLe(x, kNumericMax)}}

BigWireInputs ==
    {kInt128Min, ISub(kInt128Min, INat(N1))} \cup
    {IMk(sg, m) : sg \in BOOLEAN,
                  m \in {x \in WireMagnitudes(BigWireLengths) : NLt(x, NPow2(kBitsPerBigNumeric - 1))}}
    \cup {IMk(TRUE, NPow2(kBitsPerBigNumeric - 1))}

InitWire ==
    /\ Start("value")
    /\ a \in WireInputs /\ b = IZero /\ n = 0
    /\ NoText /\ NoDouble /\ NoBytes /\ NoSums

InitBigWire ==
    /\ Start("bigvalue")
    /\ a \in BigWireInputs /\ b = IZero /\ n = 0
    /\ NoText /\ NoDouble /\ NoBytes /\ NoSums

\* byte strings in the form FixedInt::SerializeToBytes writes
InitCanonicalBytes ==
    /\ Start("bytes")
    /\ NoValues /\ NoText /\ NoDouble /\ NoSums
    /\ bytes \in {SerializeToBytes(<<>>, x, kBitsPerInt128) : x \in WireInputs}

DoSerializeAsProtoBytes ==
    Apply("value", "SerializeAsProtoBytes", Ok(SerializeAsProtoBytes(a)))

DoSerializeAndAppendToProtoBytes ==
    Apply("value", "SerializeAndAppendToProtoBytes",
          Ok(SerializeAndAppendToProtoBytes(bytes, a)))

DoBigSerializeAndAppendToProtoBytes ==
    Apply("bigvalue", "BigSerializeAndAppendToProtoBytes",
          Ok(BigNumericSerializeAndAppendToProtoBytes(bytes, a)))

\* the bytes that were serialized are deserialized
DoDeserializeSerialized ==
    /\ kind = "value" /\ op \in {"SerializeAsProtoBytes", "SerializeAndAppendToProtoBytes"}
    /\ op' = "DeserializeFromProtoBytes"
    /\ bytes' = out.v
    /\ out' = DeserializeFromProtoBytes(out.v)
    /\ UNCHANGED <<kind, a, b, n, str, dbl, aggregators>>

DoBigDeserializeSerialized ==
    /\ kind = "bigvalue" /\ op = "BigSerializeAndAppendToProtoBytes"
    /\ op' = "BigDeserializeFromProtoBytes"
    /\ bytes' = out.v
    /\ out' = BigNumericDeserializeFromProtoBytes(out.v)
    /\ UNCHANGED <<kind, a, b, n, str, dbl, aggregators>>

(***************************************************************************)
(* Aggregators: values are added, then the sum or the average is asked.    *)
(***************************************************************************)
MaxAdds == 3

AggregateValues ==
    {kNumericMaxInt, kNumericMinInt, INat(N1), INeg(INat(N1)), INat(Half)}

InitSum ==
    /\ Start("sum")
    /\ NoValues /\ NoText /\ NoDouble /\ NoBytes /\ NoSums

SumAdd ==
    /\ kind = "sum" /\ op = "" /\ count < MaxAdds
    /\ \E value \in AggregateValues : sum_' = SumAggregatorAdd(sum_, value)
    /\ count' = count + 1
    /\ UNCHANGED <<operands, op, sum_lower_, sum_upper_, statistics, out>>

SumGetSum ==
    /\ kind = "sum" /\ op = ""
    /\ op' = "GetSum"
    /\ out' = SumAggregatorGetSum(sum_)
    /\ UNCHANGED <<operands, aggregators>>

\* an aggregator that one value has been added to LoadedAdds times
LoadedAdds == 10

InitLoadedSum ==
    /\ Start("sum")
    /\ NoValues /\ NoText /\ NoDouble /\ NoBytes
    /\ sum_ \in {IMk(value.neg, NMulSmall(value.mag, LoadedAdds)) : value \in AggregateValues}
    /\ sum_lower_ = IZero /\ sum_upper_ = IZero /\ count = LoadedAdds /\ NoStatistics

\* the counts the average is asked for: none, one, an odd one, and the number
\* of values added
AverageCounts == {0, 1, 7, count}

SumGetAverage ==
    /\ kind = "sum" /\ op = ""
    /\ op' = "GetAverage"
    /\ \E cnt \in AverageCounts :
          /\ n' = cnt
          /\ out' = SumAggregatorGetAverage(sum_, cnt)
    /\ UNCHANGED <<kind, a, b, str, dbl, bytes, aggregators>>

InitAggregator ==
    /\ Start("aggregator")
    /\ NoValues /\ NoText /\ NoDouble /\ NoBytes /\ NoSums

AggregatorDoAdd ==
    /\ kind = "aggregator" /\ op = "" /\ count < MaxAdds
    /\ \E value \in AggregateValues :
          LET next == AggregatorAdd(sum_lower_, sum_upper_, value)
          IN  sum_lower_' = next.sum_lower /\ sum_upper_' = next.sum_upper
    /\ count' = count + 1
    /\ UNCHANGED <<operands, op, sum_, statistics, out>>

AggregatorDoGetSum ==
    /\ kind = "aggregator" /\ op = ""
    /\ op' = "GetSum"
    /\ out' = AggregatorGetSum(sum_lower_, sum_upper_)
    /\ UNCHANGED <<operands, aggregators>>

AggregatorDoGetAverage ==
    /\ kind = "aggregator" /\ op = ""
    /\ op' = "GetAverage"
    /\ \E cnt \in {0, count} :
          /\ n' = cnt
          /\ out' = AggregatorGetAverage(sum_lower_, sum_upper_, cnt)
    /\ UNCHANGED <<kind, a, b, str, dbl, bytes, aggregators>>

\* static_cast<double> of a FixedInt or FixedUint: the nearest double, ties
\* to the even mantissa
kDoubleMantissaBits == 53

FixedIntToDouble(x) ==
    IF IIsZero(x) THEN Double("finite", FALSE, N0, 0)
    ELSE The({ IF shift <= 0 THEN Double("finite", x.neg, x.mag, 0)
               ELSE The({ Double("finite", x.neg,
                                 IF NLt(half, rest) \/ (rest = half /\ kept[1] % 2 = 1)
                                 THEN NAdd(kept, N1) ELSE kept,
                                 shift)
                        : kept \in {NShr(x.mag, shift)},
                          rest \in {NLowBits(x.mag, shift)},
                          half \in {NPow2(shift - 1)} })
             : shift \in {FindMSBSetNonZero(x.mag) + 1 - kDoubleMantissaBits} })

\* a statistic that is there: the quotient of two doubles, of the square
\* root of the divisor where root is "divisor" and the square root of the
\* quotient where it is "quotient".  A quotient of zero by zero is a NaN,
\* another quotient by zero an infinity, the root of a negative number a
\* NaN.
Statistic(dividend, divisor, root) ==
    [some     |-> TRUE,
     cls      |-> IF IIsZero(divisor.mantissa)
                  THEN IF IIsZero(dividend.mantissa) THEN "nan" ELSE "infinite"
                  ELSE IF root = "divisor" /\ divisor.mantissa.neg THEN "nan"
                  ELSE IF root = "quotient" /\ dividend.mantissa.neg # divisor.mantissa.neg
                  THEN "nan"
                  ELSE "finite",
     dividend |-> dividend,
     divisor  |-> divisor,
     root     |-> root]

\* absl::nullopt
nullopt ==
    [some |-> FALSE, cls |-> "none", dividend |-> Double("finite", FALSE, N0, 0),
     divisor |-> Double("finite", FALSE, N0, 0), root |-> "none"]

\* GetScaledCovarianceNumerator in a FixedInt<64, 5>, the width of the sum of
\* products
GetScaledCovarianceNumeratorInFiveWords(sum_x, sum_y, sum_product, cnt) ==
    The({ WrapSigned(ISub(scaled, ExtendAndMultiply(sum_x, sum_y)), kBitsPerSumSquare)
        : scaled \in {WrapSigned(IMul(sum_product, INat(cnt)), kBitsPerSumSquare)} })

\* GetScaledCovarianceNumerator, in a FixedInt<64, 6>
GetScaledCovarianceNumerator(sum_x, sum_y, sum_product, cnt) ==
    The({ WrapSigned(ISub(scaled, ExtendAndMultiply(sum_x, sum_y)), kBitsPerNumerator)
        : scaled \in {WrapSigned(IMul(sum_product, INat(cnt)), kBitsPerNumerator)} })

\* the denominator of GetCovariance, in a FixedUint<64, 3>
CovarianceDenominator(cnt, count_offset) ==
    The({ NLowBits(NMul(pairs, NLowBits(kScalingFactorSquare, kBitsPerUint64)), kBitsPerSum)
        : pairs \in {NLowBits(NMul(cnt, NLowBits(NSub(cnt, count_offset), kBitsPerUint64)),
                              kBitsPerSum)} })

\* GetCovariance
GetCovariance(sum_x, sum_y, sum_product, cnt, count_offset, root) ==
    Statistic(FixedIntToDouble(GetScaledCovarianceNumerator(sum_x, sum_y, sum_product, cnt)),
              FixedIntToDouble(INat(CovarianceDenominator(cnt, count_offset))),
              root)

\* NumericValue::VarianceAggregator::GetPopulationVariance
GetPopulationVariance(self, cnt) ==
    IF NLt(N0, cnt)
    THEN GetCovariance(self.sum_, self.sum_, self.sum_square_, cnt, N0, "none")
    ELSE nullopt

\* GetSamplingVariance that answers for one row too
GetSamplingVarianceOfOne(self, cnt) ==
    IF NLt(N0, cnt)
    THEN GetCovariance(self.sum_, self.sum_, self.sum_square_, cnt, N1, "none")
    ELSE nullopt

\* NumericValue::VarianceAggregator::GetSamplingVariance
GetSamplingVariance(self, cnt) ==
    IF NLt(N1, cnt)
    THEN GetCovariance(self.sum_, self.sum_, self.sum_square_, cnt, N1, "none")
    ELSE nullopt

\* NumericValue::VarianceAggregator::GetPopulationStdDev
GetPopulationStdDev(self, cnt) ==
    IF NLt(N0, cnt)
    THEN GetCovariance(self.sum_, self.sum_, self.sum_square_, cnt, N0, "quotient")
    ELSE nullopt

\* NumericValue::VarianceAggregator::GetSamplingStdDev
GetSamplingStdDev(self, cnt) ==
    IF NLt(N1, cnt)
    THEN GetCovariance(self.sum_, self.sum_, self.sum_square_, cnt, N1, "quotient")
    ELSE nullopt

\* NumericValue::CovarianceAggregator::GetPopulationCovariance
GetPopulationCovariance(self, cnt) ==
    IF NLt(N0, cnt)
    THEN GetCovariance(self.sum_x_, self.sum_y_, self.sum_product_, cnt, N0, "none")
    ELSE nullopt

\* NumericValue::CovarianceAggregator::GetSamplingCovariance
GetSamplingCovariance(self, cnt) ==
    IF NLt(N1, cnt)
    THEN GetCovariance(self.sum_x_, self.sum_y_, self.sum_product_, cnt, N1, "none")
    ELSE nullopt

\* NumericValue::CorrelationAggregator::GetCorrelation
GetCorrelation(self, cnt) ==
    IF NLt(N1, cnt)
    THEN The({ Statistic(FixedIntToDouble(numerator),
                         FixedIntToDouble(ExtendAndMultiply(variance_numerator_x,
                                                            variance_numerator_y)),
                         "divisor")
             : numerator \in {GetScaledCovarianceNumerator(
                                  self.cov_agg_.sum_x_, self.cov_agg_.sum_y_,
                                  self.cov_agg_.sum_product_, cnt)},
               variance_numerator_x \in {GetScaledCovarianceNumerator(
                                             self.cov_agg_.sum_x_, self.cov_agg_.sum_x_,
                                             self.sum_square_x_, cnt)},
               variance_numerator_y \in {GetScaledCovarianceNumerator(
                                             self.cov_agg_.sum_y_, self.cov_agg_.sum_y_,
                                             self.sum_square_y_, cnt)} })
    ELSE nullopt

\* the statistics of class cls
StatisticNames(cls) ==
    CASE cls = "SumAggregator" -> {}
      [] cls = "VarianceAggregator" ->
           {"GetPopulationVariance", "GetSamplingVariance",
            "GetPopulationStdDev", "GetSamplingStdDev"}
      [] cls = "CovarianceAggregator" -> {"GetPopulationCovariance", "GetSamplingCovariance"}
      [] cls = "CorrelationAggregator" -> {"GetCorrelation"}

\* the statistic name of self for the count cnt
GetStatistic(name, self, cnt) ==
    CASE name = "GetPopulationVariance" -> GetPopulationVariance(self, cnt)
      [] name = "GetSamplingVariance" -> GetSamplingVariance(self, cnt)
      [] name = "GetPopulationStdDev" -> GetPopulationStdDev(self, cnt)
      [] name = "GetSamplingStdDev" -> GetSamplingStdDev(self, cnt)
      [] name = "GetPopulationCovariance" -> GetPopulationCovariance(self, cnt)
      [] name = "GetSamplingCovariance" -> GetSamplingCovariance(self, cnt)
      [] name = "GetCorrelation" -> GetCorrelation(self, cnt)

\* the default-constructed aggregator of class cls
EmptyAggregator(cls) ==
    CASE cls = "SumAggregator" -> EmptySumAggregator
      [] cls = "VarianceAggregator" -> EmptyVarianceAggregator
      [] cls = "CovarianceAggregator" -> EmptyCovarianceAggregator
      [] cls = "CorrelationAggregator" -> EmptyCorrelationAggregator

\* the accumulators of self in the order SerializeAsProtoBytes writes them,
\* each with its width
Accumulators(cls, self) ==
    CASE cls = "SumAggregator" -> <<[v |-> self.sum_, bits |-> kBitsPerSum]>>
      [] cls = "VarianceAggregator" ->
           <<[v |-> self.sum_, bits |-> kBitsPerSum],
             [v |-> self.sum_square_, bits |-> kBitsPerSumSquare]>>
      [] cls = "CovarianceAggregator" ->
           <<[v |-> self.sum_product_, bits |-> kBitsPerSumSquare],
             [v |-> self.sum_x_, bits |-> kBitsPerSum],
             [v |-> self.sum_y_, bits |-> kBitsPerSum]>>
      [] cls = "CorrelationAggregator" ->
           <<[v |-> self.cov_agg_.sum_product_, bits |-> kBitsPerSumSquare],
             [v |-> self.cov_agg_.sum_x_, bits |-> kBitsPerSum],
             [v |-> self.cov_agg_.sum_y_, bits |-> kBitsPerSum],
             [v |-> self.sum_square_x_, bits |-> kBitsPerSumSquare],
             [v |-> self.sum_square_y_, bits |-> kBitsPerSumSquare]>>

\* the aggregator of class cls with the accumulators vals, in that order
FromAccumulators(cls, vals) ==
    CASE cls = "SumAggregator" -> [sum_ |-> vals[1]]
      [] cls = "VarianceAggregator" -> [sum_ |-> vals[1], sum_square_ |-> vals[2]]
      [] cls = "CovarianceAggregator" ->
           [sum_product_ |-> vals[1], sum_x_ |-> vals[2], sum_y_ |-> vals[3]]
      [] cls = "CorrelationAggregator" ->
           [cov_agg_      |-> [sum_product_ |-> vals[1], sum_x_ |-> vals[2],
                               sum_y_ |-> vals[3]],
            sum_square_x_ |-> vals[4],
            sum_square_y_ |-> vals[5]]

\* SerializeFixedInt with length bytes that count themselves
RECURSIVE SerializeFixedIntCountingLength(_, _)
SerializeFixedIntCountingLength(dest, nums) ==
    IF Len(nums) = 1 THEN SerializeToBytes(dest, nums[1].v, nums[1].bits)
    ELSE The({ SerializeFixedIntCountingLength(
                   [written EXCEPT ![old_size + 1] = (Len(written) - old_size) % ByteBase],
                   Tail(nums))
             : old_size \in {Len(dest)},
               written \in {SerializeToBytes(dest \o <<0>>, nums[1].v, nums[1].bits)} })

\* SerializeFixedInt: every number but the last after a byte that holds its
\* length
RECURSIVE SerializeFixedInt(_, _)
SerializeFixedInt(dest, nums) ==
    IF Len(nums) = 1 THEN SerializeToBytes(dest, nums[1].v, nums[1].bits)
    ELSE The({ SerializeFixedInt(
                   [written EXCEPT ![old_size + 1] = (Len(written) - old_size - 1) % ByteBase],
                   Tail(nums))
             : old_size \in {Len(dest)},
               written \in {SerializeToBytes(dest \o <<0>>, nums[1].v, nums[1].bits)} })

\* the int that a char holding the byte converts to: a byte from 128 on is
\* negative where char is signed
CharToInt(byte, char_is_signed) ==
    IF char_is_signed /\ byte >= ByteBase \div 2 THEN byte - ByteBase ELSE byte

\* DeserializeFixedInt: whether the bytes parse, and the numbers.  The
\* comparison of len with a size_t converts a negative len to a number
\* above every size.
RECURSIVE DeserializeFixedInt(_, _, _)
DeserializeFixedInt(data, widths, char_is_signed) ==
    IF Len(widths) = 1
    THEN The({ [ok |-> num.ok, v |-> <<num.v>>]
             : num \in {DeserializeFromBytes(data, widths[1])} })
    ELSE IF data = <<>> THEN [ok |-> FALSE, v |-> <<>>]
    ELSE The({ IF ~(len >= 0 /\ len < Len(data) - 1) THEN [ok |-> FALSE, v |-> <<>>]
               ELSE The({ IF ~num1.ok THEN [ok |-> FALSE, v |-> <<>>]
                          ELSE The({ [ok |-> rest.ok,
                                      v |-> IF rest.ok THEN <<num1.v>> \o rest.v ELSE <<>>]
                                   : rest \in {DeserializeFixedInt(
                                                   SubSeq(data, len + 2, Len(data)),
                                                   Tail(widths), char_is_signed)} })
                        : num1 \in {DeserializeFromBytes(SubSeq(data, 2, len + 1),
                                                         widths[1])} })
             : len \in {CharToInt(data[1], char_is_signed)} })

\* SerializeAsProtoBytes of the four classes
AggregatorSerializeAsProtoBytes(cls, self) ==
    SerializeFixedInt(<<>>, Accumulators(cls, self))

\* DeserializeFromProtoBytes of the four classes
AggregatorDeserializeFromProtoBytes(cls, data, char_is_signed) ==
    The({ IF parsed.ok THEN Ok(FromAccumulators(cls, parsed.v))
          ELSE Error("Invalid NumericValue::" \o cls \o " encoding")
        : parsed \in {DeserializeFixedInt(
                          data,
                          [i \in 1..Len(Accumulators(cls, EmptyAggregator(cls))) |->
                              Accumulators(cls, EmptyAggregator(cls))[i].bits],
                          char_is_signed)} })

(***************************************************************************)
(* Runs on the statistics aggregators.  Three aggregators of one class     *)
(* take Add, Subtract and MergeWith calls; rows records, for each of them, *)
(* the rows it stands for: what was added and not subtracted since.        *)
(***************************************************************************)
AggregatorClasses ==
    {"SumAggregator", "VarianceAggregator", "CovarianceAggregator", "CorrelationAggregator"}

OneColumnClasses == {"SumAggregator", "VarianceAggregator"}

\* times occurrences of the pair of values x, y; the one-column classes
\* read x only
Row(x, y, times) == [x |-> x, y |-> y, times |-> times]

\* self after Add of one row
AddRow(cls, self, row) ==
    CASE cls = "SumAggregator" -> [sum_ |-> SumAggregatorAdd(self.sum_, row.x)]
      [] cls = "VarianceAggregator" -> VarianceAggregatorAdd(self, row.x)
      [] cls = "CovarianceAggregator" -> CovarianceAggregatorAdd(self, row.x, row.y)
      [] cls = "CorrelationAggregator" -> CorrelationAggregatorAdd(self, row.x, row.y)

\* self after Subtract of one row
SubtractRow(cls, self, row) ==
    CASE cls = "VarianceAggregator" -> VarianceAggregatorSubtract(self, row.x)
      [] cls = "CovarianceAggregator" -> CovarianceAggregatorSubtract(self, row.x, row.y)
      [] cls = "CorrelationAggregator" -> CorrelationAggregatorSubtract(self, row.x, row.y)

\* self after self.MergeWith(that)
Merge(cls, self, that) ==
    CASE cls = "SumAggregator" -> SumAggregatorMergeWith(self, that)
      [] cls = "VarianceAggregator" -> VarianceAggregatorMergeWith(self, that)
      [] cls = "CovarianceAggregator" -> CovarianceAggregatorMergeWith(self, that)
      [] cls = "CorrelationAggregator" -> CorrelationAggregatorMergeWith(self, that)

\* the number of rows, and their sums, sums of squares and sum of products
\* as integers of no fixed width
RECURSIVE ExactSums(_)
ExactSums(rws) ==
    IF rws = <<>>
    THEN [cnt |-> N0, sum_x |-> IZero, sum_y |-> IZero, sum_product |-> IZero,
          sum_square_x |-> IZero, sum_square_y |-> IZero]
    ELSE The({ [cnt          |-> NAdd(rest.cnt, row.times),
                sum_x        |-> IAdd(rest.sum_x, IMul(t, row.x)),
                sum_y        |-> IAdd(rest.sum_y, IMul(t, row.y)),
                sum_product  |-> IAdd(rest.sum_product, IMul(t, IMul(row.x, row.y))),
                sum_square_x |-> IAdd(rest.sum_square_x, IMul(t, IMul(row.x, row.x))),
                sum_square_y |-> IAdd(rest.sum_square_y, IMul(t, IMul(row.y, row.y)))]
             : row \in {Head(rws)}, rest \in {ExactSums(Tail(rws))},
               t \in {INat(Head(rws).times)} })

\* the number of rows alone
RECURSIVE RowCount(_)
RowCount(rws) ==
    IF rws = <<>> THEN N0 ELSE NAdd(Head(rws).times, RowCount(Tail(rws)))

\* the aggregator of class cls that the rows rws were added to, one Add
\* each: every Add is an addition modulo the accumulator's width
AggregatorOf(cls, rws) ==
    The({ CASE cls = "SumAggregator" ->
                 [sum_ |-> WrapSigned(s.sum_x, kBitsPerSum)]
            [] cls = "VarianceAggregator" ->
                 [sum_        |-> WrapSigned(s.sum_x, kBitsPerSum),
                  sum_square_ |-> WrapSigned(s.sum_square_x, kBitsPerSumSquare)]
            [] cls = "CovarianceAggregator" -> cov
            [] cls = "CorrelationAggregator" ->
                 [cov_agg_      |-> cov,
                  sum_square_x_ |-> WrapSigned(s.sum_square_x, kBitsPerSumSquare),
                  sum_square_y_ |-> WrapSigned(s.sum_square_y, kBitsPerSumSquare)]
        : s \in {ExactSums(rws)},
          cov \in {The({ [sum_product_ |-> WrapSigned(t.sum_product, kBitsPerSumSquare),
                          sum_x_       |-> WrapSigned(t.sum_x, kBitsPerSum),
                          sum_y_       |-> WrapSigned(t.sum_y, kBitsPerSum)]
                        : t \in {ExactSums(rws)} })} })

\* the rows one aggregator takes in a run
MaxRows == 3

\* a row count is a uint64_t
kuint64max == NSub(NPow2(kBitsPerUint64), N1)

StatisticsValues == {kNumericMaxInt, kNumericMinInt, INat(Half)}

\* the rows of Add calls
AddedRows(cls) ==
    IF cls \in OneColumnClasses
    THEN {Row(INat(Half), INat(Half), N1)}
    ELSE {Row(INat(Half), kNumericMaxInt, N1)}

\* the rows of the second and of the third aggregator
OtherRows(cls) ==
    IF cls \in OneColumnClasses
    THEN {<<Row(kNumericMinInt, kNumericMinInt, N1)>>}
    ELSE {<<Row(kNumericMinInt, INat(Half), N1)>>}

ThirdRows(cls) ==
    IF cls \in OneColumnClasses
    THEN {<<Row(kNumericMaxInt, kNumericMaxInt, <<MaxRows>>)>>,
          <<Row(INat(N1), INat(N1), N1), Row(kNumericMinInt, kNumericMinInt, N1)>>}
    ELSE {<<Row(kNumericMinInt, kNumericMaxInt, <<MaxRows>>)>>,
          <<Row(INat(Half), INat(N1), N1), Row(kNumericMaxInt, INat(N1), N1)>>}

\* aggregators that took nearly as many rows as a count can tell: one row
\* over and over, or two rows half of the time each
LoadedTimes == {NSub(kuint64max, <<MaxRows>>), NPow2(kBitsPerUint64 - 2)}

LoadedRows(cls) ==
    {<<Row(kNumericMaxInt, IF cls \in OneColumnClasses THEN kNumericMaxInt ELSE kNumericMinInt,
           NSub(kuint64max, <<MaxRows>>))>>,
     <<Row(kNumericMaxInt, kNumericMaxInt, NPow2(kBitsPerUint64 - 2)),
       Row(kNumericMinInt, IF cls \in OneColumnClasses THEN kNumericMinInt ELSE kNumericMaxInt,
           NPow2(kBitsPerUint64 - 2))>>}

InitStatistics ==
    /\ kind \in AggregatorClasses
    /\ op = "" /\ out = NoResult
    /\ NoValues /\ NoText /\ NoDouble /\ NoBytes
    /\ sum_ = IZero /\ sum_lower_ = IZero /\ sum_upper_ = IZero /\ count = 0
    /\ \E mine \in {<<>>} \cup LoadedRows(kind),
          yours \in OtherRows(kind),
          theirs \in ThirdRows(kind) :
          /\ rows = [agg |-> mine, other |-> yours, third |-> theirs]
          /\ agg = AggregatorOf(kind, mine)
          /\ other = AggregatorOf(kind, yours)
          /\ third = AggregatorOf(kind, theirs)

\* a run that was given no bytes works on its aggregators
Aggregating == kind \in AggregatorClasses /\ op = "" /\ bytes = <<>>

\* the rows of both fit one run and one count
MayTake(mine, more) ==
    /\ Len(mine) + Len(more) <= MaxRows
    /\ NLe(NAdd(RowCount(mine), RowCount(more)), kuint64max)

\* agg.Add(row)
StatisticsAdd ==
    /\ Aggregating
    /\ \E row \in AddedRows(kind) :
          /\ MayTake(rows.agg, <<row>>)
          /\ agg' = AddRow(kind, agg, row)
          /\ rows' = [rows EXCEPT !.agg = Append(@, row)]
    /\ UNCHANGED <<operands, op, sum_, sum_lower_, sum_upper_, count, other, third, out>>

\* rws less one occurrence of the row at position i
LessOne(rws, i) ==
    IF rws[i].times = N1
    THEN SubSeq(rws, 1, i - 1) \o SubSeq(rws, i + 1, Len(rws))
    ELSE [rws EXCEPT ![i].times = NSub(@, N1)]

\* agg.Subtract(row), of a row that agg stands for; of the rows of a
\* loaded aggregator, one
StatisticsSubtract ==
    /\ Aggregating /\ kind # "SumAggregator"
    /\ \E i \in 1..Len(rows.agg) :
          /\ rows.agg[i].times \in {N1} \cup LoadedTimes
          /\ agg' = SubtractRow(kind, agg, rows.agg[i])
          /\ rows' = [rows EXCEPT !.agg = LessOne(@, i)]
    /\ UNCHANGED <<operands, op, sum_, sum_lower_, sum_upper_, count, other, third, out>>

\* agg.MergeWith(other) and agg.MergeWith(third)
StatisticsMergeWith ==
    /\ Aggregating
    /\ \E that \in {"other", "third"} :
          /\ MayTake(rows.agg, rows[that])
          /\ agg' = Merge(kind, agg, IF that = "other" THEN other ELSE third)
          /\ rows' = [rows EXCEPT !.agg = @ \o rows[that]]
    /\ UNCHANGED <<operands, op, sum_, sum_lower_, sum_upper_, count, other, third, out>>

\* agg.GetSum() and agg.GetAverage(count) of a SumAggregator
StatisticsGetSum ==
    /\ Aggregating /\ kind = "SumAggregator"
    /\ op' = "GetSum"
    /\ out' = SumAggregatorGetSum(agg.sum_)
    /\ UNCHANGED <<operands, aggregators>>

\* the counts a SumAggregator's average is asked for: none, and the number
\* of rows where an int holds it
StatisticsCounts ==
    {0} \cup (IF NLe(RowCount(rows.agg), <<MaxRows>>)
              THEN {NToInt(RowCount(rows.agg))} ELSE {})

StatisticsGetAverage ==
    /\ Aggregating /\ kind = "SumAggregator"
    /\ op' = "GetAverage"
    /\ \E cnt \in StatisticsCounts :
          /\ n' = cnt
          /\ out' = SumAggregatorGetAverage(agg.sum_, cnt)
    /\ UNCHANGED <<kind, a, b, str, dbl, bytes, aggregators>>

\* byte strings handed to DeserializeFromProtoBytes: what a loaded
\* aggregator serializes to, as it is and damaged, and strings that no
\* aggregator serializes to
LongWire == 131

AggregatorWires(cls) ==
    UNION {{g, SubSeq(g, 1, Len(g) - 1), [g EXCEPT ![1] = 0],
            [g EXCEPT ![1] = Len(g) - 1], [g EXCEPT ![1] = Len(g) - 2],
            [g EXCEPT ![1] = ByteBase \div 2], [g EXCEPT ![1] = ByteBase - 1],
            [g EXCEPT ![Len(g)] = 0]}
           : g \in {AggregatorSerializeAsProtoBytes(cls, AggregatorOf(cls, rws))
                       : rws \in ThirdRows(cls)}}
    \cup {<<1>>, <<1, 2>>, <<0, 1, 2>>,
          [i \in 1..LongWire |-> IF i = 1 THEN ByteBase \div 2 ELSE 0],
          [i \in 1..LongWire |-> IF i = 1 THEN ByteBase - 1 ELSE 1]}

InitStatisticsWire ==
    /\ kind \in AggregatorClasses
    /\ op = "" /\ out = NoResult
    /\ NoValues /\ NoText /\ NoDouble
    /\ bytes \in AggregatorWires(kind)
    /\ sum_ = IZero /\ sum_lower_ = IZero /\ sum_upper_ = IZero /\ count = 0
    /\ agg = EmptyAggregator(kind)
    /\ other = EmptyAggregator(kind)
    /\ third = EmptyAggregator(kind)
    /\ rows = NoRows

\* agg.SerializeAsProtoBytes()
StatisticsSerialize ==
    /\ kind \in AggregatorClasses /\ op = ""
    /\ op' = "SerializeAsProtoBytes"
    /\ bytes' = AggregatorSerializeAsProtoBytes(kind, agg)
    /\ UNCHANGED <<kind, a, b, n, str, dbl, aggregators, out>>

\* DeserializeFromProtoBytes of the bytes given, before anything else, or of
\* the bytes just written, in a build where char is signed and in one where
\* it is not
StatisticsDeserialize ==
    /\ kind \in AggregatorClasses
    /\ \/ op = "SerializeAsProtoBytes"
       \/ op = "" /\ rows = NoRows
    /\ op' = "DeserializeFromProtoBytes"
    /\ \E char_is_signed \in BOOLEAN :
          out' = AggregatorDeserializeFromProtoBytes(kind, bytes, char_is_signed)
    /\ UNCHANGED <<operands, aggregators>>

\* the counts a statistic is asked for: none, one, the number of rows, and
\* the greatest count
CountArguments == {N0, N1, RowCount(rows.agg), kuint64max}

\* a statistic of agg for a count: the variances and standard deviations,
\* the covariances, the correlation
StatisticsGetStatistic ==
    /\ Aggregating
    /\ \E name \in StatisticNames(kind), cnt \in CountArguments :
          /\ op' = name
          /\ a' = INat(cnt)
          /\ out' = GetStatistic(name, agg, cnt)
    /\ UNCHANGED <<kind, b, n, str, dbl, bytes, aggregators>>

(***************************************************************************)
(* Runs that merge Aggregators.  other is a second Aggregator, which took  *)
(* the rows rows.other.                                                    *)
(***************************************************************************)
\* the sum an Aggregator stands for: sum_upper * 2^128 + sum_lower
RepresentedSum(lower, upper) == IAdd(IMul(upper, INat(NPow2(kBitsPerInt128))), lower)

\* the Aggregator that stands for total: what Add calls with that total
\* leave in the two words
AggregatorOfTotal(total) ==
    The({ [sum_lower_ |-> lower,
           sum_upper_ |-> The({ IMk(rest.neg, NShr(rest.mag, kBitsPerInt128))
                              : rest \in {ISub(total, lower)} })]
        : lower \in {WrapSigned(total, kBitsPerInt128)} })

\* the rows of the second Aggregator: some whose total is next to the ends
\* of the lower word, -3 * 2^127 + 1, 2^127 - 1 and -2^127, and loaded ones
MergedRows ==
    {<<Row(kNumericMinInt, kNumericMinInt, <<5>>),
       Row(INeg(INat(NSub(NSub(NMulSmall(NPow2(kBitsPerInt128 - 1), 3), N1),
                          NMulSmall(kNumericMax, 5)))), IZero, N1)>>,
     <<Row(kNumericMaxInt, kNumericMaxInt, N1),
       Row(ISub(kInt128Max, kNumericMaxInt), IZero, N1)>>,
     <<Row(kNumericMinInt, kNumericMinInt, N1),
       Row(ISub(kInt128Min, kNumericMinInt), IZero, N1)>>,
     <<Row(kNumericMaxInt, kNumericMaxInt, <<LoadedAdds>>)>>,
     <<Row(kNumericMinInt, kNumericMinInt, <<LoadedAdds>>)>>,
     <<Row(INat(Half), INat(Half), N1)>>}

InitMerge ==
    /\ Start("aggregator")
    /\ NoValues /\ NoText /\ NoDouble /\ NoBytes
    /\ sum_ = IZero /\ sum_lower_ = IZero /\ sum_upper_ = IZero /\ count = 0
    /\ agg = EmptySumAggregator /\ third = EmptySumAggregator
    /\ \E yours \in MergedRows :
          /\ rows = [agg |-> <<>>, other |-> yours, third |-> <<>>]
          /\ other = AggregatorOfTotal(ExactSums(yours).sum_x)

\* MergeWith(other), once, of an Aggregator that took up to MaxAdds values
AggregatorDoMergeWith ==
    /\ kind = "aggregator" /\ op = "" /\ count <= MaxAdds
    /\ rows.other # <<>>
    /\ LET next == AggregatorMergeWith(sum_lower_, sum_upper_,
                                       other.sum_lower_, other.sum_upper_)
       IN  sum_lower_' = next.sum_lower /\ sum_upper_' = next.sum_upper
    /\ count' = count + NToInt(RowCount(rows.other))
    /\ UNCHANGED <<operands, op, sum_, statistics, out>>

(***************************************************************************)
(* BigNumericValues.                                                       *)
(***************************************************************************)
kBigNumericMax == NSub(NPow2(kBitsPerBigNumeric - 1), N1)

BigPositions == {0, 1, 37, kBigNumericMaxFractionalDigits, 39, 75, 76}

BigMagnitudes ==
    {NMulSmall(NPow(NTen, k), d) : d \in 1..MaxMantissa, k \in BigPositions}
    \cup {NAdd(NPow(NTen, k), NMulSmall(NPow(NTen, j), MaxMantissa)) :
             k \in BigPositions, j \in BigPositions}
    \cup {N0, kBigNumericMax, NSub(kBigNumericMax, N1), NPow2(kBitsPerBigNumeric - 2)}

BigInputs ==
    {IMk(sg, m) : sg \in BOOLEAN, m \in {x \in BigMagnitudes : NLe(x, kBigNumericMax)}}

InitBigValue ==
    /\ Start("bigvalue")
    /\ a \in BigInputs /\ b = IZero /\ n = 0
    /\ NoText /\ NoDouble /\ NoBytes /\ NoSums

DoBigToString ==
    /\ kind = "bigvalue" /\ op = ""
    /\ op' = "BigToString"
    /\ str' = BigNumericToString(a)
    /\ UNCHANGED <<kind, a, b, n, dbl, bytes, aggregators, out>>

DoBigFromString ==
    /\ TextReady("text", "bigvalue")
    /\ op' = "BigFromString"
    /\ out' = BigNumericFromString(str)
    /\ UNCHANGED <<operands, aggregators>>

DoBigFromStringStrict ==
    /\ TextReady("text", "bigvalue")
    /\ op' = "BigFromStringStrict"
    /\ out' = BigNumericFromStringStrict(str)
    /\ UNCHANGED <<operands, aggregators>>

\* operands of products and quotients at the ends of the range
BigPairMagnitudes ==
    {NMulSmall(NPow(NTen, k), d) : d \in 1..MaxMantissa, k \in {0, 37, 38, 57}}
    \cup {N0, NShr(ScalingFactor, 1), NPow2(200), NMul(NPow2(93), NPow(<<5>>, kBigNumericMaxFractionalDigits)),
          NPow2(kBitsPerBigNumeric - 2), NPow2(kBitsPerInt128 - 1),
          kBigNumericMax, NSub(kBigNumericMax, N1)}

BigPairInputs == {IMk(sg, m) : sg \in BOOLEAN, m \in BigPairMagnitudes}

InitBigPair ==
    /\ Start("bigpair")
    /\ a \in BigPairInputs /\ b \in BigPairInputs /\ n = 0
    /\ NoText /\ NoDouble /\ NoBytes /\ NoSums

DoBigMultiply == Apply("bigpair", "BigMultiply", BigNumericMultiply(a, b))
DoBigDivide == Apply("bigpair", "BigDivide", BigNumericDivide(a, b))
DoBigFromDouble == Apply("double", "BigFromDouble", BigNumericFromDouble(dbl))
DoBigDeserializeFromProtoBytes ==
    Apply("bytes", "BigDeserializeFromProtoBytes", BigNumericDeserializeFromProtoBytes(bytes))

(***************************************************************************)
(* The specifications.                                                     *)
(***************************************************************************)
NextArith == DoMultiply \/ DoDivide \/ DoIntegerDivide \/ DoMod

\* products, quotients and remainders of two NumericValues
SpecArith == InitPair /\ [][NextArith]_vars

NextParse == DoFromString \/ DoFromStringStrict

\* parsing a text
SpecParse == InitText /\ [][NextParse]_vars

NextFormat ==
    \/ DoToString \/ DoFromString \/ DoFromStringStrict
    \/ DoBigToString \/ DoBigFromString \/ DoBigFromStringStrict

\* formatting a value, and parsing the text back
SpecFormat == (InitValue \/ InitBigValue) /\ [][NextFormat]_vars

InitBig == InitBigText \/ InitBigPair \/ InitDouble \/ InitBytes

NextBig ==
    \/ DoBigFromString \/ DoBigFromStringStrict
    \/ DoBigMultiply \/ DoBigDivide
    \/ DoBigFromDouble \/ DoBigDeserializeFromProtoBytes

\* every way to a BigNumericValue
SpecBig == InitBig /\ [][NextBig]_vars

Init ==
    \/ InitPair \/ InitPower \/ InitValue \/ InitRound \/ InitText
    \/ InitDouble \/ InitBytes \/ InitSum \/ InitAggregator

Next ==
    \/ NextArith \/ DoPower
    \/ DoToString \/ DoAbs \/ DoSign \/ DoCeiling \/ DoFloor
    \/ DoRound \/ DoTrunc
    \/ DoFromString \/ DoFromStringStrict
    \/ DoFromDouble \/ DoDeserializeFromProtoBytes
    \/ SumAdd \/ SumGetSum \/ SumGetAverage
    \/ AggregatorDoAdd \/ AggregatorDoGetSum \/ AggregatorDoGetAverage

\* every operation that returns a NumericValue
Spec == Init /\ [][Next]_vars

NextRound == DoRound \/ DoTrunc

NextCeilingFloor == DoCeiling \/ DoFloor

NextPower == DoPower

NextSum == SumAdd \/ SumGetSum \/ SumGetAverage

\* values added to a SumAggregator, then its sum or its average
SpecSum == (InitSum \/ InitLoadedSum) /\ [][NextSum]_vars

NextDouble == DoFromDouble

\* a double converted to a NumericValue
SpecDouble == (InitDouble \/ InitBoundaryDouble) /\ [][NextDouble]_vars

NextFromDouble == DoFromDouble \/ DoBigFromDouble
SpecFromDouble == (InitDouble \/ InitBoundaryDouble) /\ [][NextFromDouble]_vars

NextBytes ==
    \/ DoSerializeAsProtoBytes \/ DoSerializeAndAppendToProtoBytes
    \/ DoBigSerializeAndAppendToProtoBytes
    \/ DoDeserializeSerialized \/ DoBigDeserializeSerialized
    \/ DoDeserializeFromProtoBytes \/ DoSerializeDeserialized

\* values to bytes and back, and bytes to values and back
SpecBytes ==
    (InitWire \/ InitBigWire \/ InitBytes \/ InitCanonicalBytes) /\ [][NextBytes]_vars

\* raising a base to an exponent
SpecPower == (InitPower \/ InitExactPower) /\ [][NextPower]_vars

\* the two roundings to an integer
SpecCeilingFloor == InitValue /\ [][NextCeilingFloor]_vars

\* rounding a value to a number of digits
SpecRound == InitRound /\ [][NextRound]_vars

NextStatistics ==
    \/ StatisticsAdd \/ StatisticsSubtract
    \/ StatisticsMergeWith
    \/ StatisticsGetSum \/ StatisticsGetAverage
    \/ StatisticsSerialize \/ StatisticsDeserialize
    \/ StatisticsGetStatistic

\* the statistics aggregators, from empty and from loaded ones, and the
\* bytes they are read from
SpecStatistics == (InitStatistics \/ InitStatisticsWire) /\ [][NextStatistics]_vars

NextMerge ==
    \/ AggregatorDoAdd \/ AggregatorDoMergeWith
    \/ AggregatorDoGetSum \/ AggregatorDoGetAverage

\* Aggregators that take values and another Aggregator
SpecMerge == InitMerge /\ [][NextMerge]_vars

InRange(v) == NLe(v.mag, kNumericMax)

(***************************************************************************)
(* The range claims.                                                       *)
(***************************************************************************)
\* C1: every NumericValue an operation returns successfully for in-range
\* operands has a scaled integer v with |v| <= 10^38 - 1, zero not negative.
C1_NumericRange ==
    (InRange(a) /\ InRange(b) /\ out.ok) =>
        /\ InRange(out.v)
        /\ out.v.neg => out.v.mag # <<>>

\* a quotient that is the largest value was returned, and so was an overflow
\* for a quotient one step beyond it
C1_Witness ==
    /\ kind = "pair" /\ op = "Divide" /\ out = Ok(a)
    /\ a.mag = kNumericMax /\ b.mag = kScalingFactor
    /\ ~Divide(a, INat(Half)).ok

\* C2 as stated: every BigNumericValue returned by FromString,
\* FromStringStrict, FromDouble, Multiply, Divide or DeserializeFromProtoBytes
\* has |v| <= 2^255 - 1, so -2^255 is never returned.
C2_BigNumericMagnitude ==
    out.ok => NLe(out.v.mag, kBigNumericMax)

\* C2, amended: every BigNumericValue returned by these operations has
\* -2^255 <= v <= 2^255 - 1, and FromDouble never returns -2^255.
C2_BigNumericRange ==
    out.ok =>
        /\ \/ NLe(out.v.mag, kBigNumericMax)
           \/ out.v = IMk(TRUE, NPow2(kBitsPerBigNumeric - 1))
        /\ out.v.neg => out.v.mag # <<>>
        /\ op = "BigFromDouble" => NLe(out.v.mag, kBigNumericMax)

\* a product of two in-range operands is -2^255
C2_Witness ==
    /\ kind = "bigpair" /\ op = "BigMultiply"
    /\ NLe(a.mag, kBigNumericMax) /\ NLe(b.mag, kBigNumericMax)
    /\ out = Ok(IMk(TRUE, NPow2(kBitsPerBigNumeric - 1)))

(***************************************************************************)
(* The arithmetic claims.                                                  *)
(***************************************************************************)
\* m / d rounded to the nearest integer, a tie away from zero: the quotient
\* is raised exactly when twice the remainder reaches the divisor
RoundedQuotient(m, d) ==
    LET qr == NDivMod(m, d)
    IN  IF NLe(d, NMulSmall(qr.r, 2)) THEN NAdd(qr.q, N1) ELSE qr.q

\* C7: Multiply returns the exact product rounded to 9 fractional digits, a tie
\* away from zero, and reports "numeric overflow" exactly when the rounded
\* magnitude exceeds 10^38 - 1 (the range test made after the division).
C7_MultiplyRoundsAndChecksRange ==
    op = "Multiply" =>
        LET product == NMul(a.mag, b.mag)
            rounded == RoundedQuotient(product, kScalingFactor)
        IN  /\ rounded = NDiv(NAdd(product, Half), kScalingFactor)
            /\ NLt(product, NAdd(NMul(kNumericMax, kScalingFactor), Half))
                  <=> NLe(rounded, kNumericMax)
            /\ kOverflowThreshold = NAdd(NMul(kNumericMax, kScalingFactor), Half)
            /\ IF NLe(rounded, kNumericMax)
               THEN out = Ok(IMk(a.neg # b.neg, rounded))
               ELSE ~out.ok /\ out.err = "numeric overflow"

\* a product that ends in exactly half a unit was rounded up in magnitude,
\* to a negative result
C7_Witness ==
    /\ op = "Multiply" /\ out.ok /\ out.v.neg
    /\ NMod(NMul(a.mag, b.mag), kScalingFactor) = Half
    /\ NLt(NMul(out.v.mag, kScalingFactor), NMul(a.mag, b.mag)) = FALSE

\* C8: Divide by zero is a "division by zero" error; otherwise the magnitude is
\* the exact quotient rounded half away from zero, the result is negative iff
\* exactly one operand is and the magnitude is nonzero, and "numeric overflow"
\* is returned exactly when the rounded magnitude exceeds 10^38 - 1.
C8_DivideRoundsAndChecksRange ==
    op = "Divide" =>
        IF IIsZero(b) THEN ~out.ok /\ out.err = "division by zero"
        ELSE LET rounded == RoundedQuotient(NMul(a.mag, kScalingFactor), b.mag)
             IN  IF NLe(rounded, kNumericMax)
                 THEN /\ out.ok
                      /\ out.v.mag = rounded
                      /\ out.v.neg = (a.neg # b.neg /\ rounded # <<>>)
                 ELSE ~out.ok /\ out.err = "numeric overflow"

\* a quotient of operands of opposite signs was rounded up in magnitude
C8_Witness ==
    /\ op = "Divide" /\ out.ok /\ out.v.neg /\ ~IIsZero(b)
    /\ NLt(NMul(a.mag, kScalingFactor), NMul(out.v.mag, b.mag))

\* C9: IntegerDivide by zero is a "division by zero" error; otherwise the
\* result is the quotient truncated toward zero, times the scale, and
\* "numeric overflow" is returned exactly when the quotient's magnitude
\* exceeds kNumericMax / scale, that is reaches 10^29.
C9_IntegerDivideTruncates ==
    op = "IntegerDivide" =>
        IF IIsZero(b) THEN ~out.ok /\ out.err = "division by zero"
        ELSE LET q == NDiv(a.mag, b.mag)
             IN  /\ NLe(NMul(q, b.mag), a.mag)
                 /\ NLt(a.mag, NMul(NAdd(q, N1), b.mag))
                 /\ IF NLt(q, NPow(NTen, kMaxIntegerDigits))
                    THEN out = Ok(IMk(a.neg # b.neg, NMul(q, kScalingFactor)))
                    ELSE ~out.ok /\ out.err = "numeric overflow"

\* a negative inexact quotient was truncated toward zero
C9_Witness ==
    /\ op = "IntegerDivide" /\ out.ok /\ out.v.neg
    /\ NMod(a.mag, b.mag) # <<>>

\* C10: Mod by zero is a "division by zero" error; otherwise it returns r,
\* zero or of the sign of the dividend, with |r| < |b| and a - r a multiple
\* of b; it never reports overflow.
C10_ModIsRemainder ==
    op = "Mod" =>
        IF IIsZero(b) THEN ~out.ok /\ out.err = "division by zero"
        ELSE /\ out.ok
             /\ IIsZero(out.v) \/ out.v.neg = a.neg
             /\ NLt(out.v.mag, b.mag)
             /\ NMod(ISub(a, out.v).mag, b.mag) = <<>>
             /\ NLe(ISub(a, out.v).mag, a.mag)

\* a negative dividend and a positive divisor left a negative remainder
C10_Witness ==
    /\ op = "Mod" /\ out.ok /\ out.v.neg /\ ~b.neg

(***************************************************************************)
(* The parsing claims.  The grammar is read left to right, independently   *)
(* of the way SplitENotationParts cuts the text.                           *)
(***************************************************************************)
\* the text without the whitespace around it
Stripped(text) ==
    LET nonspace == {i \in 1..Len(text) : ~IsSpace(text[i])}
    IN  IF nonspace = {} THEN <<>>
        ELSE SubSeq(text, MinOf(nonspace), MaxOf(nonspace))

\* the end of the run of digits of t that starts at from (from - 1: no digit)
DigitRunEnd(t, from) ==
    LET others == {i \in from..Len(t) : ~IsDigit(t[i])}
    IN  IF others = {} THEN Len(t) ELSE MinOf(others) - 1

\* [+-]? ( digits ( '.' digits? )? | '.' digits ) ( [eE] [+-]? digits )?
Grammar(t) ==
    LET signed  == t # <<>> /\ t[1] \in {"+", "-"}
        i0      == IF signed THEN 2 ELSE 1
        i1      == DigitRunEnd(t, i0)
        dot     == i1 < Len(t) /\ t[i1 + 1] = "."
        f0      == IF dot THEN i1 + 2 ELSE i1 + 1
        f1      == IF dot THEN DigitRunEnd(t, f0) ELSE i1
        hasExp  == f1 < Len(t) /\ t[f1 + 1] \in {"e", "E"}
        esigned == hasExp /\ f1 + 1 < Len(t) /\ t[f1 + 2] \in {"+", "-"}
        e0      == IF esigned THEN f1 + 3 ELSE f1 + 2
        e1      == IF hasExp THEN DigitRunEnd(t, e0) ELSE f1
    IN  [ok   |-> /\ (i1 - i0 + 1) + (f1 - f0 + 1) >= 1
                  /\ hasExp => e1 >= e0
                  /\ e1 = Len(t),
         neg  |-> signed /\ t[1] = "-",
         ip   |-> SubSeq(t, i0, i1),
         fp   |-> IF dot THEN SubSeq(t, f0, f1) ELSE <<>>,
         eneg |-> esigned /\ t[f1 + 2] = "-",
         ed   |-> IF hasExp THEN SubSeq(t, e0, e1) ELSE <<>>]

\* exponents past this bound decide the value by their sign alone
ExponentCap == 1000

\* the exponent written in g, capped at ExponentCap in magnitude
WrittenExponent(g) ==
    LET e == DigitsValue(g.ed)
        m == IF NLt(NFromInt(ExponentCap), e) THEN ExponentCap ELSE NToInt(e)
    IN  IF g.eneg THEN 0 - m ELSE m

\* |significand * 10^exponent * scale| rounded to an integer, a tie away from
\* zero
ScaledMagnitude(g) ==
    LET D == DigitsValue(g.ip \o g.fp)
        E == WrittenExponent(g) - Len(g.fp) + kMaxFractionalDigits
    IN  IF D = <<>> THEN <<>>
        ELSE IF E >= 0 THEN NMul(D, NPow(NTen, Min2(E, 2 * ExponentCap)))
        ELSE IF 0 - E > Len(g.ip) + Len(g.fp) + 1 THEN <<>>
        ELSE RoundedQuotient(D, NPow(NTen, 0 - E))

\* the digits of the significand below the last fractional position
DiscardedDigits(g) ==
    LET ds == g.ip \o g.fp
        e  == WrittenExponent(g)
    IN  {i \in 1..Len(ds) : Len(g.ip) - i + e < 0 - kMaxFractionalDigits}

\* the value the grammar gives the text, when it is a number in range
Meaning(text) ==
    LET g == Grammar(Stripped(text))
    IN  IF g.ok /\ NLe(ScaledMagnitude(g), kNumericMax)
        THEN Ok(IMk(g.neg, ScaledMagnitude(g)))
        ELSE Error("Invalid NUMERIC value")

\* C4: FromString succeeds iff the text, stripped of surrounding whitespace,
\* matches the grammar and its rounded value is in range, and then returns
\* sign * significand * 10^exponent; every other text is an invalid-value
\* error.
C4_FromStringAcceptsGrammar ==
    (kind = "text" /\ op = "FromString") => out = Meaning(str)

\* the texts on which FromString leaves the grammar: no integer digit and an
\* exponent that moves every fractional digit just below the last position,
\* or a zero significand with an exponent no int64_t holds
EmptyPromotion(text) ==
    LET g == Grammar(Stripped(text))
    IN  /\ g.ok
        /\ \/ g.ip = <<>> /\ WrittenExponent(g) = 0 - kMaxFractionalDigits
           \/ /\ DigitsValue(g.ip \o g.fp) = <<>> /\ ~g.eneg
              /\ ILt(kInt64Max, INat(NAdd(DigitsValue(g.ed), NFromInt(kMaxFractionalDigits))))

\* C4, apart from those texts: FromString and the grammar agree everywhere else
C4_GrammarElsewhere ==
    (kind = "text" /\ op = "FromString" /\ ~EmptyPromotion(str)) => out = Meaning(str)

\* C4's example: "  -1.2345e2 " parsed to -123.45
C4_Example ==
    /\ kind = "text" /\ op = "FromString"
    /\ str = <<" "," ","-","1",".","2","3","4","5","e","2"," ">>
    /\ out = Ok(IMk(TRUE, NMulSmall(NPow(NTen, 7), 12345)))

\* C5: on a text of the grammar whose value is in range, FromStringStrict
\* succeeds iff every digit below the 9th fractional position is '0', and
\* then returns what FromString returns; FromString rounds the magnitude half
\* away from zero on the first discarded digit.
C5_StrictVersusLenient ==
    LET g == Grammar(Stripped(str))
    IN  (kind = "text" /\ g.ok /\ Meaning(str).ok) =>
          /\ op = "FromStringStrict" =>
                /\ out.ok <=> \A i \in DiscardedDigits(g) : (g.ip \o g.fp)[i] = "0"
                /\ out.ok => out = FromString(str)
          /\ op = "FromString" => out = Meaning(str)

\* C5, apart from the texts where FromString leaves the grammar
C5_StrictElsewhere ==
    LET g == Grammar(Stripped(str))
    IN  (kind = "text" /\ g.ok /\ Meaning(str).ok /\ ~EmptyPromotion(str)) =>
          /\ op = "FromStringStrict" =>
                /\ out.ok <=> \A i \in DiscardedDigits(g) : (g.ip \o g.fp)[i] = "0"
                /\ out.ok => out = FromString(str)
          /\ op = "FromString" => out = Meaning(str)

\* C5's example: "0.0000000005" is an error when strict
C5_Example ==
    /\ kind = "text" /\ op = "FromStringStrict" /\ ~out.ok
    /\ str = <<"0",".","0","0","0","0","0","0","0","0","0","5">>
    /\ FromString(str) = Ok(IMk(FALSE, N1))

(***************************************************************************)
(* The formatting claims.                                                  *)
(***************************************************************************)
\* C3: the text ToString gives an in-range NumericValue or BigNumericValue is
\* parsed back, by FromString and by FromStringStrict, to the same value.
C3_StringRoundTrip ==
    /\ (kind = "value" /\ op \in {"FromString", "FromStringStrict"}) => out = Ok(a)
    /\ (kind = "bigvalue" /\ op \in {"BigFromString", "BigFromStringStrict"}) => out = Ok(a)

\* a negative BigNumeric value with integer and fractional digits came back
\* from the strict parser
C3_Witness ==
    /\ kind = "bigvalue" /\ op = "BigFromStringStrict" /\ out = Ok(a)
    /\ a.neg /\ Len(str) > kBigNumericMaxFractionalDigits + 2
    /\ \E i \in 1..Len(str) : str[i] = "."

\* ^-?(0|[1-9][0-9]*)(\.[0-9]+)?$ with no zero at the end of the fraction
CanonicalShape(t) ==
    LET i0  == IF t # <<>> /\ t[1] = "-" THEN 2 ELSE 1
        i1  == DigitRunEnd(t, i0)
        dot == i1 < Len(t) /\ t[i1 + 1] = "."
    IN  /\ i1 >= i0
        /\ t[i0] = "0" => i1 = i0
        /\ IF dot
           THEN /\ Len(t) >= i1 + 2
                /\ DigitRunEnd(t, i1 + 2) = Len(t)
                /\ t[Len(t)] # "0"
           ELSE i1 = Len(t)

\* C6: ToString emits ^-?(0|[1-9][0-9]*)(\.[0-9]+)?$ with no trailing zero in
\* the fraction, a leading '-' exactly for a negative value, and exactly "0"
\* for zero.
C6_FormatterShape ==
    op \in {"ToString", "BigToString"} =>
        /\ CanonicalShape(str)
        /\ (str[1] = "-") <=> IIsNeg(a)
        /\ (str = <<"0">>) <=> IIsZero(a)

\* a negative value below 1 in magnitude, whose scaled integer ends in zeros,
\* was formatted
C6_Witness ==
    /\ kind = "value" /\ op = "ToString" /\ a.neg
    /\ NLt(a.mag, kScalingFactor) /\ NMod(a.mag, NTen) = <<>>
    /\ Len(str) > 3

(***************************************************************************)
(* The rounding claims.                                                    *)
(***************************************************************************)
\* the multiple of f nearest to m, a tie to the greater one
NearestMultiple(m, f) == NMul(RoundedQuotient(m, f), f)

\* C11: Round(x, d) is x for d >= 9, zero for d < -29, and otherwise the
\* multiple of 10^(9 - d) nearest to x, a tie away from zero, or an overflow
\* error iff that multiple is out of range.
C11_RoundToNearest ==
    (kind = "round" /\ op = "Round") =>
        out = IF n >= kMaxFractionalDigits THEN Ok(a)
              ELSE IF n < 0 - kMaxIntegerDigits THEN Ok(IZero)
              ELSE LET m == NearestMultiple(a.mag, NPow(NTen, kMaxFractionalDigits - n))
                   IN  IF NLe(m, kNumericMax) THEN Ok(IMk(a.neg, m))
                       ELSE Error("numeric overflow")

\* Round(-1.235, 2) = -1.24: a tie on a fast path, rounded away from zero
C11_Witness ==
    /\ kind = "round" /\ op = "Round" /\ n = 2
    /\ a = IMk(TRUE, Dec(<<1,2,3,5,0,0,0,0,0,0>>))
    /\ out = Ok(IMk(TRUE, Dec(<<1,2,4,0,0,0,0,0,0,0>>)))

\* the integer-valued decimals next to x: its truncation and one further out
IntegersNear(x) ==
    LET q == NDiv(x.mag, kScalingFactor)
    IN  {IMk(sg, NMul(w, kScalingFactor)) : sg \in BOOLEAN, w \in {q, NAdd(q, N1)}}

\* the smallest integer-valued decimal >= x: x <= c < x + 1
SmallestIntegerAbove(x) ==
    CHOOSE c \in IntegersNear(x) : ILe(x, c) /\ ILt(c, IAdd(x, INat(kScalingFactor)))

\* the largest integer-valued decimal <= x: x - 1 < c <= x
LargestIntegerBelow(x) ==
    CHOOSE c \in IntegersNear(x) : ILe(c, x) /\ ILt(ISub(x, INat(kScalingFactor)), c)

\* C12: Ceiling(x) is the smallest integer-valued decimal >= x and Floor(x) the
\* largest <= x, for both signs, the identity on integers; each reports an
\* overflow error iff that integer is out of range.
C12_CeilingFloor ==
    /\ (kind = "value" /\ op = "Ceiling") =>
          /\ \E c \in IntegersNear(a) : ILe(a, c) /\ ILt(c, IAdd(a, INat(kScalingFactor)))
          /\ out = IF InRange(SmallestIntegerAbove(a)) THEN Ok(SmallestIntegerAbove(a))
                   ELSE Error("numeric overflow")
    /\ (kind = "value" /\ op = "Floor") =>
          /\ \E c \in IntegersNear(a) : ILe(c, a) /\ ILt(ISub(a, INat(kScalingFactor)), c)
          /\ out = IF InRange(LargestIntegerBelow(a)) THEN Ok(LargestIntegerBelow(a))
                   ELSE Error("numeric overflow")
    /\ (kind = "value" /\ op \in {"Ceiling", "Floor"} /\ GetFractionalPart(a) = IZero) =>
          out = Ok(a)

\* Ceiling(-1.5) = -1: a negative value with a fraction goes toward zero
C12_Witness ==
    /\ kind = "value" /\ op = "Ceiling"
    /\ a = IMk(TRUE, NAdd(kScalingFactor, Half))
    /\ out = Ok(IMk(TRUE, kScalingFactor))

(***************************************************************************)
(* The power claims.                                                       *)
(***************************************************************************)
\* the whole part and the fraction of the magnitude of an exponent
WholePart(e) == NDiv(e.mag, kScalingFactor)
HasFraction(e) == NMod(e.mag, kScalingFactor) # <<>>
IsOdd(k) == NMod(k, <<2>>) = N1

\* C13: Power(x, 0) is exactly 1 for every x, zero included; Power(0, e) is an
\* error for every e < 0 and is 0 for every e > 0, fractional e included.
C13_PowerOfZero ==
    (kind = "power" /\ op = "Power") =>
        /\ IIsZero(b) => out = Ok(INat(kScalingFactor))
        /\ (IIsZero(a) /\ b.neg) => (~out.ok /\ out.err = "division by zero")
        /\ (IIsZero(a) /\ ~b.neg /\ ~IIsZero(b)) => out = Ok(IZero)

\* Power(0, 0) = 1
C13_Witness ==
    /\ kind = "power" /\ op = "Power"
    /\ IIsZero(a) /\ IIsZero(b) /\ out = Ok(INat(kScalingFactor))

\* C14: for x < 0 and e # 0, Power reports "Negative NUMERIC value cannot be
\* raised to a fractional power" iff e has a fraction; for a whole e a result
\* is negative iff the exponent is odd and the result is not zero.
C14_PowerOfNegative ==
    (kind = "power" /\ op = "Power" /\ a.neg /\ ~IIsZero(b)) =>
        /\ (out = Error("Negative NUMERIC value cannot be raised to a fractional power"))
              <=> HasFraction(b)
        /\ (~HasFraction(b) /\ out.ok) =>
              (out.v.neg <=> (IsOdd(WholePart(b)) /\ out.v.mag # <<>>))

\* Power(-2, 3) = -8
C14_Witness ==
    /\ kind = "power" /\ op = "Power"
    /\ a = IMk(TRUE, NMulSmall(kScalingFactor, 2))
    /\ b = INat(NMulSmall(kScalingFactor, 3))
    /\ out = Ok(IMk(TRUE, NMulSmall(kScalingFactor, 8)))

\* x, or one more than cap when x is greater than cap
Saturated(x, cap) == IF NLe(x, cap) THEN x ELSE NAdd(cap, N1)

\* result * power^exp by squaring, every product divided by unit and its
\* fraction dropped, and Saturated at cap: for unit = 1 the power itself when
\* it is at most cap; otherwise a lower bound of it (the factors are at least 0,
\* and a factor above cap is a power of a base above 1, at most the result)
RECURSIVE PowerBelow(_, _, _, _, _)
PowerBelow(result, power, exp, unit, cap) ==
    The({ IF NLe(exp, N1) \/ NLt(cap, r) THEN r
          ELSE The({ IF NLt(cap, square) THEN square
                     ELSE PowerBelow(r, square, NShr(exp, 1), unit, cap)
                   : square \in {Saturated(NDiv(NMul(power, power), unit), cap)} })
        : r \in {IF IsOdd(exp) THEN Saturated(NDiv(NMul(result, power), unit), cap)
                 ELSE result} })

\* the digits after the decimal point that the scaled magnitude m needs
FractionalDigits(m) ==
    MinOf({f \in 0..kMaxFractionalDigits :
              NMod(m, NPow(NTen, kMaxFractionalDigits - f)) = <<>>})

\* |b|^k in scaled units when it is exactly representable and in range, b having
\* f digits after the point: it then has exactly f * k of them, so f * k <= 9
ExactPower(m, k) ==
    LET f == FractionalDigits(m)
        c == NDiv(m, NPow(NTen, kMaxFractionalDigits - f))
    IN  IF ~NLe(NMulSmall(k, f), NFromInt(kMaxFractionalDigits)) THEN NotParsed
        ELSE LET p == NMul(PowerBelow(N1, c, k, N1, kNumericMax),
                           NPow(NTen, kMaxFractionalDigits
                                      - (IF f = 0 THEN 0 ELSE f * NToInt(k))))
             IN  IF NLe(p, kNumericMax) THEN Parsed(p) ELSE NotParsed

\* 1 / |b|^k in scaled units when it is exactly representable, for |b| > 1: a
\* prime factor 2 or 5 of the denominator of |b|^k costs a digit for each k, so
\* k <= 9
ExactInversePower(m, k) ==
    IF ~NLe(k, NFromInt(kMaxFractionalDigits)) THEN NotParsed
    ELSE LET one == NPow(kScalingFactor, NToInt(k) + 1)
             qr == NDivMod(one, PowerBelow(N1, m, k, N1, one))
         IN  IF qr.r = <<>> /\ qr.q # <<>> THEN Parsed(qr.q) ELSE NotParsed

\* the digits the lower bound of a power is computed with
GuardDigits == 38

\* |b|^k is certainly greater than the maximum: a lower bound of it is
PowerExceedsMax(m, k) ==
    LET unit == NPow(NTen, GuardDigits)
        scale == NPow(NTen, GuardDigits - kMaxFractionalDigits)
    IN  NLt(kScalingFactor, m) /\
        NLt(NMul(kNumericMax, scale),
            PowerBelow(unit, NMul(m, scale), k, unit, NMul(NPow(NTen, kMaxDigits), scale)))

\* the sign of a whole power
PowerSign(x, k) == x.neg /\ IsOdd(k)

\* C15: Power with a whole exponent is exact whenever the true result is
\* exactly representable: Power(b, k) = b^k for k >= 1 when b^k has at most 9
\* fractional digits and is in range, Power(b, -k) = 1 / b^k for |b| > 1 when
\* that is exactly representable, and Power(b, k) is an overflow error when
\* b^k exceeds the maximum.
C15_WholePowerExact ==
    (kind = "power" /\ op = "Power" /\ ~IIsZero(b) /\ ~HasFraction(b)) =>
        /\ (~b.neg /\ ExactPower(a.mag, WholePart(b)).ok) =>
              out = Ok(IMk(PowerSign(a, WholePart(b)), ExactPower(a.mag, WholePart(b)).v))
        /\ (b.neg /\ NLt(kScalingFactor, a.mag)
                  /\ ExactInversePower(a.mag, WholePart(b)).ok) =>
              out = Ok(IMk(PowerSign(a, WholePart(b)),
                           ExactInversePower(a.mag, WholePart(b)).v))
        /\ (~b.neg /\ PowerExceedsMax(a.mag, WholePart(b))) =>
              out = Error("numeric overflow")

\* the exact results of C15 alone
C15_ExactResults ==
    (kind = "power" /\ op = "Power" /\ ~IIsZero(b) /\ ~HasFraction(b)) =>
        /\ (~b.neg /\ ExactPower(a.mag, WholePart(b)).ok) =>
              out = Ok(IMk(PowerSign(a, WholePart(b)), ExactPower(a.mag, WholePart(b)).v))
        /\ (b.neg /\ NLt(kScalingFactor, a.mag)
                  /\ ExactInversePower(a.mag, WholePart(b)).ok) =>
              out = Ok(IMk(PowerSign(a, WholePart(b)),
                           ExactInversePower(a.mag, WholePart(b)).v))

\* Power(2, -3) = 0.125
C15_Example ==
    /\ kind = "power" /\ op = "Power"
    /\ a = INat(NMulSmall(kScalingFactor, 2))
    /\ b = IMk(TRUE, NMulSmall(kScalingFactor, 3))
    /\ ExactInversePower(a.mag, WholePart(b)) = Parsed(NFromInt(125000000))
    /\ out = Ok(INat(NFromInt(125000000)))

\* Power(1.000000003, 22258322599) returns a value although the power exceeds
\* the maximum
C15_SlowOverflow ==
    /\ kind = "power" /\ op = "Power"
    /\ a = INat(NAdd(kScalingFactor, <<3>>))
    /\ b = INat(NMul(SlowOverflowExponent, kScalingFactor))
    /\ PowerExceedsMax(a.mag, WholePart(b))
    /\ out.ok

(***************************************************************************)
(* The wire claims.                                                        *)
(***************************************************************************)
\* the value whose two's complement the byte string t is, its last byte
\* extended by its sign
Decode(t) ==
    IF t[Len(t)] >= ByteBase \div 2
    THEN IMk(TRUE, NSub(NPow2(kBitsPerByte * Len(t)), NNorm(t)))
    ELSE IMk(FALSE, NNorm(t))

\* t is the shortest byte string whose sign extension recovers its value
MinimumLength(t) ==
    /\ t # <<>>
    /\ Len(t) > 1 => Decode(SubSeq(t, 1, Len(t) - 1)) # Decode(t)

\* C16: for every in-range NumericValue x the bytes of SerializeAsProtoBytes
\* and of SerializeAndAppendToProtoBytes deserialize to x, and so do the bytes
\* of a BigNumericValue.
C16_ValueRoundTrip ==
    /\ (kind = "value" /\ op = "DeserializeFromProtoBytes") => out = Ok(a)
    /\ (kind = "bigvalue" /\ op = "BigDeserializeFromProtoBytes") => out = Ok(a)

\* 128 scaled units came back from the two bytes 80 00 of SerializeAsProtoBytes
C16_Witness ==
    /\ kind = "value" /\ op = "DeserializeFromProtoBytes"
    /\ a = INat(NPow2(kBitsPerByte - 1)) /\ bytes = <<ByteBase \div 2, 0>>
    /\ out = Ok(a)

\* C17: a byte string that is the minimum-length encoding of an in-range
\* scaled integer, -2^(8k-1) included, comes back from DeserializeFromProtoBytes
\* and SerializeAsProtoBytes unchanged.
C17_CanonicalRoundTrip ==
    (kind = "bytes" /\ op = "SerializeAsProtoBytes" /\ MinimumLength(bytes)) =>
        out = Ok(bytes)

\* C17 for every value but the negative powers -2^(8k-1)
C17_ElsewhereCanonical ==
    (kind = "bytes" /\ op = "SerializeAsProtoBytes" /\ MinimumLength(bytes)
        /\ ~(a.neg /\ a.mag = NPow2(kBitsPerByte * Len(bytes) - 1))) =>
        out = Ok(bytes)

\* the byte 80 is -128 scaled units and comes back as the two bytes 80 FF
C17_SignByteAdded ==
    /\ kind = "bytes" /\ op = "SerializeAsProtoBytes"
    /\ bytes = <<ByteBase \div 2>> /\ MinimumLength(bytes)
    /\ a = IMk(TRUE, NPow2(kBitsPerByte - 1))
    /\ out = Ok(<<ByteBase \div 2, ByteBase - 1>>)

\* C18 as claimed: 0 is serialized as the byte 00 and 1 as the two bytes 01 00.
C18_OneInTwoBytes ==
    (kind = "value" /\ op = "SerializeAsProtoBytes") =>
        /\ IIsZero(a) => out = Ok(<<0>>)
        /\ a \in {INat(N1), INat(kScalingFactor)} => out = Ok(<<1, 0>>)

\* C18, amended: 0 is serialized as the byte 00, one scaled unit as the byte
\* 01, the value 1 as the bytes 00 CA 9A 3B, and 128 scaled units, the least
\* value whose highest byte has its high bit set, as 80 00; all of them come
\* back from DeserializeFromProtoBytes.
C18_ConcreteBytes ==
    /\ (kind = "value" /\ op = "SerializeAsProtoBytes") =>
          /\ IIsZero(a) => out = Ok(<<0>>)
          /\ a = INat(N1) => out = Ok(<<1>>)
          /\ a = INat(kScalingFactor) => out = Ok(<<0, 202, 154, 59>>)
          /\ a = INat(NPow2(kBitsPerByte - 1)) => out = Ok(<<ByteBase \div 2, 0>>)
    /\ (kind = "value" /\ op = "DeserializeFromProtoBytes"
           /\ a \in {IZero, INat(N1), INat(kScalingFactor), INat(NPow2(kBitsPerByte - 1))}) =>
          out = Ok(a)

\* one scaled unit was serialized as the single byte 01
C18_Witness ==
    /\ kind = "value" /\ op = "SerializeAsProtoBytes"
    /\ a = INat(N1) /\ out = Ok(<<1>>)

(***************************************************************************)
(* The conversion claim.                                                   *)
(***************************************************************************)
\* |mantissa * 2^exponent| in scaled units, rounded to the nearest integer, a
\* tie away from zero
ScaledRounded(value) ==
    LET m == NMul(value.mantissa.mag, kScalingFactor)
    IN  IF value.exponent >= 0 THEN NMul(m, NPow2(value.exponent))
        ELSE RoundedQuotient(m, NPow2(0 - value.exponent))

\* C19: FromDouble returns an error and never a value for NaN (printed as
\* nan, never -nan), for both infinities, and, as "numeric out of range", for
\* every finite double whose scaled and rounded magnitude exceeds the maximum;
\* for every other finite double it returns a value.
C19_FromDoubleErrors ==
    (kind = "double" /\ op = "FromDouble") =>
        /\ dbl.cls = "nan" =>
              out = Error("Illegal conversion of non-finite floating point number to numeric: nan")
        /\ dbl.cls = "inf" =>
              out = Error(IF dbl.mantissa.neg
                          THEN "Illegal conversion of non-finite floating point number to numeric: -inf"
                          ELSE "Illegal conversion of non-finite floating point number to numeric: inf")
        /\ dbl.cls = "finite" =>
              out = IF NLt(kNumericMax, ScaledRounded(dbl)) THEN Error("numeric out of range")
                    ELSE Ok(IMk(dbl.mantissa.neg, ScaledRounded(dbl)))

\* the double above 1e29 is out of range
C19_Witness ==
    /\ kind = "double" /\ op = "FromDouble" /\ dbl.cls = "finite"
    /\ dbl.exponent = 44 /\ dbl.mantissa.mag = Dec(<<5,6,8,4,3,4,1,8,8,6,0,8,0,8,0,2>>)
    /\ out = Error("numeric out of range")

(***************************************************************************)
(* The aggregator claims.                                                  *)
(***************************************************************************)
\* C20: SumAggregator::GetAverage(0) is the error "division by zero: AVG"; for
\* count > 0 it is the accumulated sum divided by count, rounded half away from
\* zero, whenever that quotient is in range, also when the sum is out of range.
C20_SumAverage ==
    (kind = "sum" /\ op = "GetAverage") =>
        /\ n = 0 => out = Error("division by zero: AVG")
        /\ (n > 0 /\ NLe(RoundedQuotient(sum_.mag, NFromInt(n)), kNumericMax)) =>
              out = Ok(IMk(sum_.neg, RoundedQuotient(sum_.mag, NFromInt(n))))

\* the maximum was added ten times: the sum is out of range, the average of
\* ten is the maximum
C20_Witness ==
    /\ kind = "sum" /\ op = "GetAverage" /\ n = LoadedAdds /\ count = LoadedAdds
    /\ sum_ = INat(NMulSmall(kNumericMax, LoadedAdds))
    /\ ~SumAggregatorGetSum(sum_).ok
    /\ out = Ok(INat(kNumericMax))

(***************************************************************************)
(* The statistics aggregator claims.                                       *)
(***************************************************************************)
\* C21: MergeWith is associative and commutative on the Sum, Variance,
\* Covariance and Correlation aggregators: merging other and then third into
\* agg gives the accumulators that merging (other merged with third) into agg
\* gives, and merging other into agg gives those of merging agg into other;
\* the serializations are the same bytes and GetSum and GetAverage the same
\* results.
C21_MergeAssociativeCommutative ==
    kind \in AggregatorClasses =>
        LET left     == Merge(kind, Merge(kind, agg, other), third)
            right    == Merge(kind, agg, Merge(kind, other, third))
            forward  == Merge(kind, agg, other)
            backward == Merge(kind, other, agg)
        IN  /\ left = right
            /\ forward = backward
            /\ AggregatorSerializeAsProtoBytes(kind, left)
                  = AggregatorSerializeAsProtoBytes(kind, right)
            /\ AggregatorSerializeAsProtoBytes(kind, forward)
                  = AggregatorSerializeAsProtoBytes(kind, backward)
            /\ kind = "SumAggregator" =>
                  /\ SumAggregatorGetSum(left.sum_) = SumAggregatorGetSum(right.sum_)
                  /\ SumAggregatorGetSum(forward.sum_) = SumAggregatorGetSum(backward.sum_)
                  /\ \A cnt \in 0..MaxRows :
                        /\ SumAggregatorGetAverage(left.sum_, cnt)
                              = SumAggregatorGetAverage(right.sum_, cnt)
                        /\ SumAggregatorGetAverage(forward.sum_, cnt)
                              = SumAggregatorGetAverage(backward.sum_, cnt)

\* the first correlation aggregator, which had taken nearly as many rows as
\* a count can tell and had given one back, was merged with the third and
\* then with the second; the three differ from each other
C21_Witness ==
    /\ kind = "CorrelationAggregator" /\ op = ""
    /\ Len(rows.agg) = 3
    /\ rows.agg[1] = Row(kNumericMaxInt, kNumericMinInt, NSub(kuint64max, <<MaxRows + 1>>))
    /\ <<rows.agg[2]>> = rows.third /\ <<rows.agg[3]>> = rows.other
    /\ rows.other = <<Row(kNumericMinInt, INat(Half), N1)>>
    /\ rows.third = <<Row(kNumericMinInt, kNumericMaxInt, <<MaxRows>>)>>
    /\ agg # other /\ other # third /\ agg # third
    /\ agg = Merge(kind, Merge(kind, AggregatorOf(kind, <<rows.agg[1]>>), third), other)
    /\ agg = Merge(kind, AggregatorOf(kind, <<rows.agg[1]>>), Merge(kind, other, third))

\* the largest length a length byte may hold
kMaxLengthByte == 127

\* data is count components, each but the last after one byte that holds
\* its length, from 1 to 127, and the last one not empty
RECURSIVE WellFormedWire(_, _)
WellFormedWire(data, components) ==
    IF components = 1 THEN data # <<>>
    ELSE /\ data # <<>>
         /\ data[1] \in 1..kMaxLengthByte
         /\ data[1] < Len(data) - 1
         /\ WellFormedWire(SubSeq(data, data[1] + 2, Len(data)), components - 1)

\* the components of a well-formed wire
RECURSIVE WireComponents(_, _)
WireComponents(data, components) ==
    IF components = 1 THEN <<data>>
    ELSE <<SubSeq(data, 2, data[1] + 1)>>
         \o WireComponents(SubSeq(data, data[1] + 2, Len(data)), components - 1)

\* a length byte of data, the first or one after components that are there,
\* is not below the number of bytes after it
RECURSIVE BadLengthByte(_, _)
BadLengthByte(data, components) ==
    /\ components > 1
    /\ data # <<>>
    /\ \/ data[1] >= Len(data) - 1
       \/ BadLengthByte(SubSeq(data, data[1] + 2, Len(data)), components - 1)

\* C22: the wire format of the aggregators.  SerializeAsProtoBytes writes
\* every accumulator but the last as one byte holding a length from 1 to 127
\* and that many bytes, the FixedInt's own serialization, and the last one
\* without a length; DeserializeFromProtoBytes of these bytes succeeds and
\* gives the aggregator back; it fails on no bytes and when a length byte is
\* not below the number of bytes after it.
C22_AggregatorWireFormat ==
    kind \in AggregatorClasses =>
        LET nums       == Accumulators(kind, agg)
            components == Len(nums)
        IN  /\ op = "SerializeAsProtoBytes" =>
                  /\ WellFormedWire(bytes, components)
                  /\ WireComponents(bytes, components)
                        = [i \in 1..components |->
                              SerializeToBytes(<<>>, nums[i].v, nums[i].bits)]
            /\ (op = "DeserializeFromProtoBytes"
                  /\ bytes = AggregatorSerializeAsProtoBytes(kind, agg)) => out = Ok(agg)
            /\ (op = "DeserializeFromProtoBytes"
                  /\ (bytes = <<>> \/ BadLengthByte(bytes, components))) =>
                  out = Error("Invalid NumericValue::" \o kind \o " encoding")

\* a correlation aggregator that took nearly as many rows as a count can
\* tell was written, to five components, and read back
C22_Witness ==
    /\ kind = "CorrelationAggregator" /\ op = "DeserializeFromProtoBytes"
    /\ rows.agg \in LoadedRows(kind)
    /\ bytes = AggregatorSerializeAsProtoBytes(kind, agg)
    /\ Len(WireComponents(bytes, 5)) = 5
    /\ Len(bytes) > kBitsPerSumSquare \div kBitsPerByte
    /\ out = Ok(agg)

\* bytes whose second length byte asks for all the bytes after it are
\* refused
C22_RefusedWitness ==
    /\ kind = "CovarianceAggregator" /\ op = "DeserializeFromProtoBytes"
    /\ bytes[1] < Len(bytes) - 1
    /\ BadLengthByte(bytes, 3)
    /\ ~out.ok

\* the statistics over all rows and those over a sample
PopulationStatistics ==
    {"GetPopulationVariance", "GetPopulationStdDev", "GetPopulationCovariance"}
SamplingStatistics ==
    {"GetSamplingVariance", "GetSamplingStdDev", "GetSamplingCovariance", "GetCorrelation"}

\* the least count a statistic is defined for is one above its offset
CountOffset == IF op \in PopulationStatistics THEN N0 ELSE N1

\* count * (count - offset) * scale^2, at no fixed width
ExactDenominator(cnt, count_offset) ==
    NMul(NMul(cnt, NSub(cnt, count_offset)), kScalingFactorSquare)

\* the statistic is absent exactly for the counts up to its offset
AbsentIffFewRows ==
    /\ out.some <=> NLt(CountOffset, a.mag)
    /\ ~out.some => out = nullopt

\* the variances, standard deviations and covariances divide by the double
\* of count * (count - offset) * scale^2, which is not zero and below 2^192
DenominatorInRange ==
    (out.some /\ op # "GetCorrelation") =>
        /\ ExactDenominator(a.mag, CountOffset) # N0
        /\ NLt(ExactDenominator(a.mag, CountOffset), NPow2(kBitsPerSum))
        /\ out.divisor = FixedIntToDouble(INat(ExactDenominator(a.mag, CountOffset)))
        /\ ~IIsZero(out.divisor.mantissa)

\* C23 as stated: an undefined statistic is absent and never a division by
\* zero: the population statistics are absent iff count = 0, the sampling
\* ones and the correlation iff count <= 1, and every statistic that is
\* there has a divisor that is not zero.
C23_UndefinedIsAbsent ==
    (kind \in AggregatorClasses /\ op \in PopulationStatistics \cup SamplingStatistics) =>
        /\ AbsentIffFewRows
        /\ DenominatorInRange
        /\ out.some => ~IIsZero(out.divisor.mantissa)

\* C23, amended: the population statistics are absent iff count = 0, the
\* sampling ones and the correlation iff count <= 1.  For larger counts the
\* variances, standard deviations and covariances divide by count * (count -
\* offset) * scale^2, which is not zero and fits 192 bits; the correlation
\* divides by the square root of the product of the two variance
\* numerators, and where that product is zero it is a NaN or an infinity,
\* not absent.
C23_AbsentIffFewRows ==
    (kind \in AggregatorClasses /\ op \in PopulationStatistics \cup SamplingStatistics) =>
        /\ AbsentIffFewRows
        /\ DenominatorInRange
        /\ (out.some /\ op = "GetCorrelation") =>
              LET variance_numerator_x ==
                      GetScaledCovarianceNumerator(agg.cov_agg_.sum_x_, agg.cov_agg_.sum_x_,
                                                   agg.sum_square_x_, a.mag)
                  variance_numerator_y ==
                      GetScaledCovarianceNumerator(agg.cov_agg_.sum_y_, agg.cov_agg_.sum_y_,
                                                   agg.sum_square_y_, a.mag)
              IN  /\ out.divisor = FixedIntToDouble(IMul(variance_numerator_x,
                                                         variance_numerator_y))
                  /\ (IIsZero(variance_numerator_x) \/ IIsZero(variance_numerator_y))
                        <=> out.cls \in {"nan", "infinite"}

\* the correlation of rows, more than one, that have the same y and not the
\* same x: the variance of y is zero, the correlation is 0 / 0
C23_Witness ==
    /\ kind = "CorrelationAggregator" /\ op = "GetCorrelation"
    /\ a.mag = RowCount(rows.agg) /\ NLt(N1, a.mag)
    /\ \A i \in 1..Len(rows.agg) : rows.agg[i].y = kNumericMaxInt
    /\ \E i \in 1..Len(rows.agg) : rows.agg[i].x # rows.agg[1].x
    /\ out.some /\ out.cls = "nan"
    /\ IIsZero(out.divisor.mantissa) /\ IIsZero(out.dividend.mantissa)

\* the sampling variance of the greatest count of rows
C23_GreatestCountWitness ==
    /\ kind = "VarianceAggregator" /\ op = "GetSamplingVariance"
    /\ a.mag = kuint64max
    /\ out.some /\ out.cls = "finite"

(***************************************************************************)
(* The claims on the Aggregator of two words.                              *)
(***************************************************************************)
\* total / cnt rounded half away from zero, or the overflow error
ExpectedAverage(total, cnt) ==
    LET quotient == RoundedQuotient(total.mag, NFromInt(cnt))
    IN  IF NLe(quotient, kNumericMax) THEN Ok(IMk(total.neg, quotient))
        ELSE Error("numeric overflow: AVG")

\* C24: Aggregator::GetAverage(0) is the error "division by zero: AVG"; for
\* count > 0 and every pair of words, of the sum S = sum_upper * 2^128 +
\* sum_lower, the average is S / count rounded half away from zero, or the
\* error "numeric overflow: AVG" iff that quotient is out of range.
C24_LegacyAverage ==
    (kind = "aggregator" /\ op = "GetAverage") =>
        /\ n = 0 => out = Error("division by zero: AVG")
        /\ n > 0 => out = ExpectedAverage(RepresentedSum(sum_lower_, sum_upper_), n)

\* the same for every pair of words but a negative sum_upper with sum_lower
\* = -2^127
C24_ElsewhereExact ==
    (kind = "aggregator" /\ op = "GetAverage"
       /\ ~(sum_upper_.neg /\ sum_lower_ = kInt128Min)) =>
        /\ n = 0 => out = Error("division by zero: AVG")
        /\ n > 0 => out = ExpectedAverage(RepresentedSum(sum_lower_, sum_upper_), n)

\* the sum -3 * 2^127 of seven values: sum_upper = -1 and sum_lower =
\* -2^127; the average is returned as -2^127 / 7, the sum short of 2^128
C24_ShortAverage ==
    /\ kind = "aggregator" /\ op = "GetAverage"
    /\ sum_upper_ = IInt(-1) /\ sum_lower_ = kInt128Min
    /\ n = 7 /\ count = 7
    /\ out = Ok(INeg(INat(RoundedQuotient(NPow2(kBitsPerInt128 - 1), <<7>>))))
    /\ ExpectedAverage(RepresentedSum(sum_lower_, sum_upper_), n)
          = Ok(INeg(INat(RoundedQuotient(NMulSmall(NPow2(kBitsPerInt128 - 1), 3), <<7>>))))

\* the pairs of words with sum_lower = -2^127 and sum_upper zero or
\* positive, and those of opposite signs, give the right average
C24_OtherEndsWitness ==
    /\ kind = "aggregator" /\ op = "GetAverage" /\ n > 0
    /\ sum_upper_ = IInt(1) /\ sum_lower_ = kInt128Min
    /\ out = ExpectedAverage(INat(NPow2(kBitsPerInt128 - 1)), n)
    /\ out.ok

\* C29: Aggregator::MergeWith keeps the sum: after a.MergeWith(b), of two
\* Aggregators, sum_upper * 2^128 + sum_lower of a is what it was plus that
\* of b, also when the sum of the two lower words leaves the 128 bits at
\* either end and one is carried to or borrowed from sum_upper; b is as it
\* was.
C29_MergePreservesSum ==
    [][AggregatorDoMergeWith =>
          /\ RepresentedSum(sum_lower_', sum_upper_')
                = IAdd(RepresentedSum(sum_lower_, sum_upper_),
                       RepresentedSum(other.sum_lower_, other.sum_upper_))
          /\ other' = other]_vars

\* one unit and then the Aggregator of the sum 2^127 - 1 were taken: the
\* lower words add up to 2^127, one is carried
C29_Witness ==
    /\ kind = "aggregator" /\ op = "" /\ count = 3
    /\ other = [sum_lower_ |-> kInt128Max, sum_upper_ |-> IZero]
    /\ sum_lower_ = kInt128Min /\ sum_upper_ = IInt(1)
    /\ RepresentedSum(sum_lower_, sum_upper_) = INat(NPow2(kBitsPerInt128 - 1))

\* minus one unit and then the Aggregator of the sum -2^127 were taken: one
\* is borrowed
C29_BorrowWitness ==
    /\ kind = "aggregator" /\ op = "" /\ count = 3
    /\ other = [sum_lower_ |-> kInt128Min, sum_upper_ |-> IZero]
    /\ sum_lower_ = kInt128Max /\ sum_upper_ = IInt(-1)

(***************************************************************************)
(* C25: the rounding of FromDouble.                                        *)
(***************************************************************************)
FromDoubleOps == {"FromDouble", "BigFromDouble"}
\* the scale, the width and the greatest magnitude of the type an operation
\* converts to
ScaleOf(name) == IF name = "FromDouble" THEN kScalingFactor ELSE ScalingFactor
WidthOf(name) == IF name = "FromDouble" THEN kBitsPerInt128 ELSE kBitsPerBigNumeric
GreatestOf(name) == IF name = "FromDouble" THEN kNumericMax ELSE kBigNumericMax
OutOfRange(name) ==
    Error(IF name = "FromDouble" THEN "numeric out of range" ELSE "BigNumeric out of range")

\* |m| * scale * 2^e rounded to the nearest integer, a tie away from zero
NearestScaled(name, value) ==
    LET product == NMul(value.mantissa.mag, ScaleOf(name))
    IN  IF value.exponent >= 0 THEN NShl(product, value.exponent)
        ELSE RoundedQuotient(product, NPow2(0 - value.exponent))

\* the magnitude as the claim writes it for a negative exponent:
\* floor((floor(|m| * scale / 2^(-e-1)) + 1) / 2)
HalvedScaled(name, value) ==
    NDiv(NAdd(NDiv(NMul(value.mantissa.mag, ScaleOf(name)),
                   NPow2(0 - value.exponent - 1)), N1), NFromInt(2))

\* C25: for a finite nonzero double of mantissa m and binary exponent e,
\* FromDouble returns the value whose scaled integer is m * 2^e * scale rounded
\* to the nearest integer, a tie away from zero, when that integer is in range
\* and the range error otherwise; for e < 0 the magnitude is
\* floor((floor(|m| * scale / 2^(-e-1)) + 1) / 2), for e at or below minus the
\* width of the result it is zero, and a result that is not zero has the sign
\* of m.
C25_FromDoubleRounding ==
    (op \in FromDoubleOps /\ dbl.cls = "finite" /\ ~IIsZero(dbl.mantissa)) =>
        LET nearest == NearestScaled(op, dbl)
        IN  /\ out = IF NLe(nearest, GreatestOf(op))
                     THEN Ok(IMk(dbl.mantissa.neg, nearest))
                     ELSE OutOfRange(op)
            /\ dbl.exponent < 0 => nearest = HalvedScaled(op, dbl)
            /\ dbl.exponent <= 0 - WidthOf(op) => out = Ok(IZero)
            /\ (out.ok /\ ~IIsZero(out.v)) => out.v.neg = dbl.mantissa.neg

\* a negative double that lies halfway between two scaled integers is
\* converted to the one farther from zero
C25_Witness ==
    /\ op = "FromDouble" /\ dbl.cls = "finite" /\ dbl.mantissa.neg
    /\ dbl.exponent < 0
    /\ LET product == NMul(dbl.mantissa.mag, kScalingFactor)
           qr      == NDivMod(product, NPow2(0 - dbl.exponent))
       IN  /\ NMulSmall(qr.r, 2) = NPow2(0 - dbl.exponent)
           /\ out = Ok(INeg(INat(NAdd(qr.q, N1))))

\* a double below the least exponent of the result is converted to zero
C25_ZeroWitness ==
    /\ op = "BigFromDouble" /\ dbl.cls = "finite" /\ ~IIsZero(dbl.mantissa)
    /\ dbl.exponent <= 0 - kBitsPerBigNumeric
    /\ out = Ok(IZero)

\* a double whose exponent is positive is converted exactly
C25_ExactWitness ==
    /\ op = "FromDouble" /\ dbl.cls = "finite" /\ dbl.exponent > 0
    /\ out.ok /\ out.v.mag = NShl(NMul(dbl.mantissa.mag, kScalingFactor), dbl.exponent)

(***************************************************************************)
(* C26: the saturation of the exponent.                                    *)
(***************************************************************************)
\* the text cut at its first 'e' or 'E': what is written before it and after
\* it
CutAtExponent(t) ==
    LET marks == {i \in 1..Len(t) : t[i] \in {"e", "E"}}
        at    == IF marks = {} THEN Len(t) + 1 ELSE MinOf(marks)
    IN  [has         |-> marks # {},
         significand |-> SubSeq(t, 1, at - 1),
         exponent    |-> SubSeq(t, at + 1, Len(t))]

\* what follows the sign of an exponent, if it has one
Unsigned(t) == IF t # <<>> /\ t[1] \in {"+", "-"} THEN Tail(t) ELSE t

\* '-' and digits that denote an integer below the least int64_t
BelowInt64(t) ==
    /\ Len(t) > 1 /\ t[1] = "-" /\ AllDigits(Tail(t))
    /\ NLt(kInt64Min.mag, DigitsValue(Tail(t)))

\* digits, after '+' or not, that with the digits of the scale denote an
\* integer above the greatest int64_t
AboveInt64(t) ==
    /\ t # <<>> /\ t[1] # "-" /\ Unsigned(t) # <<>> /\ AllDigits(Unsigned(t))
    /\ NLt(kInt64Max.mag, NAdd(DigitsValue(Unsigned(t)), NFromInt(kMaxFractionalDigits)))

\* a character after the sign that is not a digit
HasNonDigit(t) == ~AllDigits(Unsigned(t))

\* C26: when the significand is valid and the exponent is '-' and digits that
\* denote an integer below the least int64_t, ParseExponent succeeds with
\* that least integer and FromString returns zero; an exponent too large in
\* the positive direction, or with a character that is not a digit, makes
\* FromString and FromStringStrict fail.
C26_ExponentSaturation ==
    op \in {"FromString", "FromStringStrict"} =>
        LET cut == CutAtExponent(Stripped(str))
        IN  /\ (cut.has /\ Grammar(cut.significand).ok /\ BelowInt64(cut.exponent)) =>
                /\ ParseExponent(cut.exponent, kMaxFractionalDigits)
                       = [ok |-> TRUE, exp |-> kInt64Min]
                /\ op = "FromString" => out = Ok(IZero)
            /\ (cut.has /\ (AboveInt64(cut.exponent) \/ HasNonDigit(cut.exponent))) =>
                /\ ~out.ok
                /\ ~ParseExponent(cut.exponent, kMaxFractionalDigits).ok

\* a negative significand that is not zero, with an exponent below the least
\* int64_t, was parsed to zero
C26_Witness ==
    /\ op = "FromString" /\ out = Ok(IZero)
    /\ LET cut == CutAtExponent(Stripped(str))
       IN  /\ cut.has /\ BelowInt64(cut.exponent)
           /\ Grammar(cut.significand).ok /\ Grammar(cut.significand).neg
           /\ ~AllZeros(Grammar(cut.significand).ip \o Grammar(cut.significand).fp)

\* an exponent one past the greatest that the scale can be added to was
\* refused
C26_TooLargeWitness ==
    /\ op = "FromString" /\ ~out.ok
    /\ LET cut == CutAtExponent(Stripped(str))
       IN  /\ cut.has /\ Grammar(cut.significand).ok /\ AboveInt64(cut.exponent)
           /\ DigitsValue(cut.exponent) = NSub(kInt64Max.mag, NFromInt(kMaxFractionalDigits - 1))

(***************************************************************************)
(* C27: Subtract is the inverse of Add.                                    *)
(***************************************************************************)
WindowClasses == {"VarianceAggregator", "CovarianceAggregator", "CorrelationAggregator"}

\* C27: on the Variance, Covariance and Correlation aggregators Subtract
\* undoes Add in any interleaving with other Adds, Subtracts and merges:
\* every accumulator is what the rows now in the window give, whatever was
\* added and subtracted before and in whatever order; and Add followed by
\* Subtract of one row, and Subtract followed by Add, leave the aggregator as
\* it was.
C27_SubtractInvertsAdd ==
    (kind \in WindowClasses /\ op = "") =>
        /\ agg = AggregatorOf(kind, rows.agg)
        /\ \A row \in AddedRows(kind) \cup {rows.agg[i] : i \in 1..Len(rows.agg)} :
              /\ SubtractRow(kind, AddRow(kind, agg, row), row) = agg
              /\ AddRow(kind, SubtractRow(kind, agg, row), row) = agg

\* a correlation aggregator that had taken nearly as many rows as a count
\* can tell took one more row and gave back one of the first: the window
\* holds the new row and one fewer of the old
C27_Witness ==
    /\ kind = "CorrelationAggregator" /\ op = ""
    /\ rows.agg = <<Row(kNumericMaxInt, kNumericMinInt, NSub(kuint64max, <<MaxRows + 1>>)),
                    Row(INat(Half), kNumericMaxInt, N1)>>
    /\ agg # AggregatorOf(kind, <<rows.agg[1]>>)

(***************************************************************************)
(* C28: the numerator of the variance.                                     *)
(***************************************************************************)
\* x is a value of a FixedInt of the given number of bits
FitsSigned(x, bits) == WrapSigned(x, bits) = x

\* n * (sum of v^2) - (sum of v)^2 over the rows, as an integer of no fixed
\* width
ExactVarianceNumerator(rws) ==
    The({ ISub(IMul(INat(s.cnt), s.sum_square_x), IMul(s.sum_x, s.sum_x))
        : s \in {ExactSums(rws)} })

VarianceGetters == {"GetPopulationVariance", "GetSamplingVariance"}

\* C28: for a VarianceAggregator that holds n >= 1 values, added or merged,
\* GetScaledCovarianceNumerator(sum, sum, sum_square, n) is
\* n * (sum of v^2) - (sum of v)^2 over the values, no step of it leaves the
\* 384 bits of the numerator, and it is not negative; the population and
\* sampling variance for the count n are not negative.
C28_VarianceNumeratorExact ==
    (kind = "VarianceAggregator" /\ rows.agg # <<>>) =>
        /\ op = "" =>
              LET cnt       == RowCount(rows.agg)
                  numerator == GetScaledCovarianceNumerator(agg.sum_, agg.sum_,
                                                            agg.sum_square_, cnt)
              IN  /\ numerator = ExactVarianceNumerator(rows.agg)
                  /\ ~numerator.neg
                  /\ FitsSigned(IMul(agg.sum_square_, INat(cnt)), kBitsPerNumerator)
                  /\ FitsSigned(ExtendAndMultiply(agg.sum_, agg.sum_), kBitsPerNumerator)
        /\ (op \in VarianceGetters /\ a = INat(RowCount(rows.agg)) /\ out.some) =>
              /\ ~out.dividend.mantissa.neg
              /\ ~out.divisor.mantissa.neg
              /\ out.cls = "finite"

\* a variance aggregator of nearly as many values as a count can tell, the
\* greatest and the least half of the time each: the numerator needs the
\* sixth word
C28_Witness ==
    /\ kind = "VarianceAggregator" /\ op = ""
    /\ Len(rows.agg) >= 2
    /\ NLe(NPow2(kBitsPerUint64 - 1), RowCount(rows.agg))
    /\ ~FitsSigned(GetScaledCovarianceNumerator(agg.sum_, agg.sum_, agg.sum_square_,
                                                RowCount(rows.agg)),
                   kBitsPerSumSquare)

\* the sampling variance of such an aggregator was asked for its count of
\* values
C28_VarianceWitness ==
    /\ kind = "VarianceAggregator" /\ op = "GetSamplingVariance"
    /\ NLe(NPow2(kBitsPerUint64 - 1), RowCount(rows.agg))
    /\ a = INat(RowCount(rows.agg))
    /\ out.some /\ ~IIsZero(out.dividend.mantissa)

(***************************************************************************)
(* C30: Trunc never fails.                                                 *)
(***************************************************************************)
\* x with the digits below position d of its fraction dropped: the multiple
\* of 10^(9-d) next to x toward zero
Truncated(x, d) ==
    IF d >= kMaxFractionalDigits THEN x
    ELSE IF d < 0 - kMaxIntegerDigits THEN IZero
    ELSE IMk(x.neg, NMul(NDiv(x.mag, NPow(NTen, kMaxFractionalDigits - d)),
                         NPow(NTen, kMaxFractionalDigits - d)))

\* C30: for every NumericValue x and every count of digits d the rounding
\* with round_away_from_zero = false returns OK, so Trunc's ValueOrDie() is
\* never applied to an error; the result t is x with the digits below
\* position d dropped: |t| <= |x|, t is zero or has the sign of x, t is a
\* multiple of 10^(9-d) for -29 <= d < 9, and Trunc(t, d) = t.
C30_TruncNeverFails ==
    (kind = "round" /\ op = "Trunc") =>
        /\ RoundInternal(a, n, FALSE).ok
        /\ out.ok
        /\ out.v = Truncated(a, n)
        /\ NLe(out.v.mag, a.mag)
        /\ IIsZero(out.v) \/ out.v.neg = a.neg
        /\ (0 - kMaxIntegerDigits <= n /\ n < kMaxFractionalDigits) =>
              NMod(out.v.mag, NPow(NTen, kMaxFractionalDigits - n)) = <<>>
        /\ Trunc(out.v, n) = out

\* a value that Round cannot round to these digits, for its magnitude would
\* pass the greatest, was truncated to a value that is not zero
C30_Witness ==
    /\ kind = "round" /\ op = "Trunc"
    /\ ~Round(a, n).ok
    /\ out.ok /\ ~IIsZero(out.v) /\ out.v.neg /\ out.v # a

\* a value was truncated at the greatest count of integer digits: the factor
\* is 10^38 and the result is zero
C30_ZeroWitness ==
    /\ kind = "round" /\ op = "Trunc" /\ n = 0 - kMaxIntegerDigits
    /\ ~IIsZero(a) /\ out = Ok(IZero)

====
